---- MODULE Spec2Model ----
(***************************************************************************)
(* Conversation orchestration of the audio feedback server                 *)
(* (src/backend/server.py): the two request handlers submit_feedback and   *)
(* submit_followup, the snapshot store written by save_conversation_file   *)
(* and read by load_conversation_records.                                  *)
(*                                                                         *)
(* Python values are modelled as follows.  A dict is a function whose      *)
(* DOMAIN is its set of keys; a list is a sequence; a JSON scalar is the   *)
(* string of its JSON literal ("true", "false", "\"yes\""), a Python str   *)
(* is a string, None is the string None.                                   *)
(***************************************************************************)
EXTENDS Integers, Sequences, FiniteSets, TLC

\* ------------------------------------------------------------- bounds

\* Requests issued in one behaviour of Spec, and in one of SpecSession.
MaxRequests == 3
MaxSessionRequests == 1
\* Last second of the wall clock.  The clock counts seconds, the resolution
\* of the file name; the finer part of datetime.utcnow() is left out.
MaxTime == 1

\* The clients, each holding one conversation and issuing one request at a
\* time.  Their requests may be served by different server processes that
\* share the conversations directory, so the steps of two requests
\* interleave at every call into the file system.
Clients == {"c1", "c2"}

\* ------------------------------------------------------ Python values

None == "<None>"
JTrue == "true"
JFalse == "false"
EmptyDict == [k \in {} |-> None]

\* isinstance(v, bool)
IsBool(v) == v \in {JTrue, JFalse}
\* bool(v) of a JSON scalar
Truthy(v) == v \notin {JFalse, "null", "0", "\"\"", "", None}
\* not v
PyNot(v) == IF Truthy(v) THEN JFalse ELSE JTrue
\* d.get(k, dflt)
Get(d, k, dflt) == IF k \in DOMAIN d THEN d[k] ELSE dflt
\* d.setdefault(k, v)
SetDefault(d, k, v) == d @@ (k :> v)
\* d[k] = v
Put(d, k, v) == (k :> v) @@ d
\* a or b, on strings
Or(a, b) == IF a \in {None, ""} THEN b ELSE a

\* ------------------------------------------------------------- inputs

Scores == {-1, 0, 10, 11}
Transcriptions == {None, "hi ", " "}
Audios == {"none", "empty", "data"}
Categories == {None, "medical"}

\* What the model call and extract_json_from_text give the handler: the
\* call raises, the text holds no JSON object, or the parsed dict.
FlagValues == {None, JTrue, JFalse, "\"yes\""}
Flags(r, k) ==
    (IF r = None THEN EmptyDict ELSE [requiresFollowUp |-> r])
    @@ (IF k = None THEN EmptyDict ELSE [conversationComplete |-> k])
RichFields ==
    [transcription |-> "heard", sentiment |-> "Negative",
     feedback |-> <<"slow">>, conversationalResponse |-> "reply"]
ParsedOutputs ==
    {Flags(r, k) @@ rest : r \in FlagValues, k \in FlagValues,
                           rest \in {EmptyDict, RichFields}}
ModelOutcomes ==
    {[kind |-> "error", parsed |-> EmptyDict],
     [kind |-> "nojson", parsed |-> EmptyDict]}
    \cup {[kind |-> "json", parsed |-> p] : p \in ParsedOutputs}

\* ---------------------------------------------------------- responses

\* What a request returns: the HTTP status, the detail of an HTTPException,
\* the JSON body of a success.  Status 0: no response yet.
Response(status, detail, body) ==
    [status |-> status, detail |-> detail, body |-> body]
NoResponse == Response(0, "", EmptyDict)
HTTPException(status, detail) == Response(status, detail, EmptyDict)

\* ------------------------------------------- validation before the call

ValidScoreUpTo11(score) == ~(score < 0 \/ score > 11)
ValidScoreFromMinusOne(score) == ~(score < -1 \/ score > 10)
\* if score < 0 or score > 10: raise HTTPException(400)
ValidScore(score) == ~(score < 0 \/ score > 10)

\* str.strip() on the transcriptions of the model
Strip(s) == CASE s = "hi " -> "hi" [] s = " " -> "" [] OTHER -> s

\* conversation_history as the client sends it: not JSON, JSON that is no
\* object, a JSON object whose "turns" is null or is "", or the JSON of a
\* history dict with a list of turns.
NoHistory == [kind |-> "none", value |-> EmptyDict]
MalformedHistories ==
    {[kind |-> "notjson", value |-> EmptyDict],
     [kind |-> "notobject", value |-> EmptyDict],
     [kind |-> "turnsnull", value |-> EmptyDict],
     [kind |-> "turnsempty", value |-> EmptyDict]}

\* The transcription-or-audio branch shared by both handlers: the
\* exception it raises, or NoResponse when the handler goes on to the model.
InputRejection(req, emptyDetail, uploadDetail) ==
    IF Truthy(req.transcription) THEN NoResponse
    ELSE IF req.audio # "none"
         THEN IF req.audio = "empty" THEN HTTPException(400, emptyDetail)
              ELSE IF ~req.uploadOk THEN HTTPException(500, uploadDetail)
              ELSE NoResponse
    ELSE HTTPException(400, "Either transcription or audio_data must be provided")

\* submit_feedback up to the model call.
FeedbackRejection(req) ==
    IF ~ValidScore(req.score) THEN HTTPException(400, "Score must be 0-10")
    ELSE InputRejection(req, "Audio file is empty",
                        "Failed to upload audio to Gemini")

HistoryRejectionWhenComplete(h) ==
    IF h.kind = "notjson"
    THEN HTTPException(400, "conversation_history must be valid JSON string")
    ELSE IF h.kind = "notobject"
    THEN HTTPException(500, "object has no attribute 'get'")
    ELSE IF Get(h.value, "conversationComplete", JFalse) = JTrue
    THEN HTTPException(400, "conversation is complete")
    ELSE NoResponse
\* json.loads(conversation_history), then history.get(...): a string that
\* is no JSON is a 400, a JSON value without .get an AttributeError that
\* the handler's last except turns into a 500.
HistoryRejection(h) ==
    IF h.kind = "notjson"
    THEN HTTPException(400, "conversation_history must be valid JSON string")
    ELSE IF h.kind = "notobject"
    THEN HTTPException(500, "object has no attribute 'get'")
    ELSE NoResponse

\* for i, t in enumerate(turns, 1) and len(turns): a JSON object whose
\* "turns" is null raises TypeError, which the handler's last except turns
\* into a 500; one whose "turns" is "" (or {}) has nothing to enumerate and
\* a length of 0, and passes.
TurnsRejection(h) ==
    IF h.kind = "turnsnull"
    THEN HTTPException(500, "'NoneType' object is not iterable")
    ELSE NoResponse

\* turns.append(...): "turns" that is no list has no append; the
\* AttributeError becomes a 500 of the handler's last except.
AppendRejection(h) ==
    IF h.kind = "turnsempty"
    THEN HTTPException(500, "'str' object has no attribute 'append'")
    ELSE NoResponse

\* submit_followup up to the model call.
FollowupRejection(req) ==
    IF ~ValidScore(req.score) THEN HTTPException(400, "Score must be 0-10")
    ELSE IF HistoryRejection(req.history) # NoResponse
    THEN HistoryRejection(req.history)
    ELSE IF InputRejection(req, "Audio file empty",
                           "Failed to upload follow-up audio") # NoResponse
    THEN InputRejection(req, "Audio file empty",
                        "Failed to upload follow-up audio")
    ELSE TurnsRejection(req.history)

\* The request gets to the branch on transcription and audio_data.
ReachesAudio(req) ==
    ValidScore(req.score) /\ HistoryRejection(req.history) = NoResponse

\* What the handler does with audio_data before the model call: nothing
\* when a transcription is given, else it reads it and, unless it is empty,
\* uploads it.
AudioUse(req) ==
    IF Truthy(req.transcription) \/ req.audio = "none" THEN "untouched"
    ELSE IF req.audio = "empty" THEN "read"
    ELSE "uploaded"

\* The request writes audio_bytes to a temporary file.
WritesTemp(req) == ReachesAudio(req) /\ AudioUse(req) = "uploaded"

\* user_transcription of submit_feedback and of submit_followup
FeedbackUserTranscription(req) ==
    IF Truthy(req.transcription) THEN Strip(req.transcription) ELSE None
FollowupUserTranscription(req) ==
    IF Truthy(req.transcription) THEN req.transcription ELSE None

\* The argument of generate_content_async: the prompt with the text when
\* user_transcription is truthy, else [prompt, audio_file_handle], where
\* the handle is None unless the audio was uploaded.
ModelCallWith(req, ut) ==
    IF Truthy(ut) THEN "text"
    ELSE IF AudioUse(req) = "uploaded" /\ req.uploadOk THEN "audio"
    ELSE "nothing"

\* ------------------------------------------------ after the model call

ModelFailureOfCallOnly(o, callDetail, parseDetail) ==
    IF o.kind = "error" THEN HTTPException(500, callDetail) ELSE NoResponse
\* The two try blocks after the prompt is built: the await of
\* generate_content_async raises, or extract_json_from_text raises
\* ValueError; each becomes a 500.  NoResponse when `parsed` is bound.
ModelFailure(o, callDetail, parseDetail) ==
    IF o.kind = "error" THEN HTTPException(500, callDetail)
    ELSE IF o.kind = "nojson" THEN HTTPException(500, parseDetail)
    ELSE NoResponse

NormalizeDefaultsToDone(p) ==
    LET p1 == IF "requiresFollowUp" \notin DOMAIN p
              THEN Put(p, "requiresFollowUp", JFalse) ELSE p
    IN  IF "conversationComplete" \notin DOMAIN p1
        THEN Put(p1, "conversationComplete", PyNot(p1["requiresFollowUp"]))
        ELSE p1
NormalizeDerivesComplete(p) ==
    LET p1 == IF "requiresFollowUp" \notin DOMAIN p
              THEN Put(p, "requiresFollowUp", JTrue) ELSE p
    IN  Put(p1, "conversationComplete", PyNot(p1["requiresFollowUp"]))
\* The safety defaults of both handlers.
Normalize(p) ==
    LET p1 == IF "requiresFollowUp" \notin DOMAIN p
              THEN Put(p, "requiresFollowUp", JTrue) ELSE p
    IN  IF "conversationComplete" \notin DOMAIN p1
        THEN Put(p1, "conversationComplete", PyNot(p1["requiresFollowUp"]))
        ELSE p1

FlagTypeErrorFirstOnly(p) ==
    IF ~IsBool(p["requiresFollowUp"])
    THEN "Model returned invalid requiresFollowUp type"
    ELSE ""
\* The isinstance checks of both handlers: the detail of the 500, or "".
FlagTypeError(p) ==
    IF ~IsBool(p["requiresFollowUp"])
    THEN "Model returned invalid requiresFollowUp type"
    ELSE IF ~IsBool(p["conversationComplete"])
    THEN "Model returned invalid conversationComplete type"
    ELSE ""

\* submit_feedback: the supportive fields and the score.
FeedbackParsed(p, ut, score) ==
    LET p1 == SetDefault(p, "transcription", Or(ut, Get(p, "transcription", "")))
        p2 == IF Truthy(ut) /\ ~Truthy(Get(p1, "transcription", None))
              THEN Put(p1, "transcription", ut) ELSE p1
        p3 == SetDefault(p2, "sentiment", "")
        p4 == SetDefault(p3, "feedback", <<>>)
        p5 == SetDefault(p4, "conversationalResponse", "")
    IN  Put(p5, "score", score)

\* submit_feedback: the history object it returns.
InitialHistory(parsed, score, category) ==
    [initial_transcription |-> parsed["transcription"],
     score |-> score,
     sentiment |-> parsed["sentiment"],
     feedback |-> parsed["feedback"],
     turns |-> <<>>,
     business_category |-> category]

\* submit_feedback: the snapshot it saves.
InitialConversation(parsed, score, category, t) ==
    [score |-> score,
     sentiment |-> parsed["sentiment"],
     initial_transcription |-> parsed["transcription"],
     initial_feedback_points |-> parsed["feedback"],
     business_category |-> category,
     turns |-> <<>>,
     initial_analysis |-> parsed,
     metadata |-> [total_turns |-> 0,
                   requires_followup |-> Get(parsed, "requiresFollowUp", JTrue),
                   created_at |-> t],
     saved_at |-> t]

\* submit_feedback: {**parsed, "history": history}; parsed holds
\* saved_conversation_file when the save returned.
\* `saved` is <<>> or <<the file name>>.
FeedbackResult(parsed, history, saved) ==
    Put(IF saved = <<>> THEN parsed
        ELSE Put(parsed, "saved_conversation_file", saved[1]),
        "history", history)

\* submit_followup: the supportive fields and the score.
FollowupParsed(p, ut, score) ==
    LET p1 == SetDefault(p, "transcription", Or(ut, Get(p, "transcription", "")))
        p2 == SetDefault(p1, "conversationalResponse",
                         Get(p1, "conversationalResponse", ""))
    IN  Put(p2, "score", score)

NewTurnSwapped(parsed, ut) ==
    [ai |-> Get(parsed, "transcription", Or(ut, "")),
     user |-> Get(parsed, "conversationalResponse", "")]
\* submit_followup: the turn it appends.
NewTurn(parsed, ut) ==
    [ai |-> Get(parsed, "conversationalResponse", ""),
     user |-> Get(parsed, "transcription", Or(ut, ""))]

\* submit_followup: the history object after the update.
UpdatedHistory(h, turns, parsed, score, category, t) ==
    LET h1 == Put(h, "turns", turns)
        h2 == Put(h1, "conversationComplete",
                  Get(parsed, "conversationComplete", JFalse))
        h3 == Put(h2, "last_updated", t)
        h4 == SetDefault(h3, "initial_transcription",
                         Get(h, "initial_transcription", ""))
        h5 == SetDefault(h4, "score", score)
    IN  Put(h5, "business_category", category)

UpdatedConversationCountsPrior(h, turns, parsed, score, category, t) ==
    [score |-> score,
     sentiment |-> Get(h, "sentiment", ""),
     initial_transcription |-> Get(h, "initial_transcription", ""),
     initial_feedback_points |-> Get(h, "feedback", <<>>),
     business_category |-> category,
     turns |-> turns,
     latest_analysis |-> parsed,
     metadata |-> [total_turns |-> Len(Get(h, "turns", <<>>)),
                   requires_followup |-> Get(parsed, "requiresFollowUp", JTrue),
                   conversation_complete |->
                       Get(parsed, "conversationComplete", JFalse),
                   updated_at |-> t],
     saved_at |-> t]
\* A variant that describes turn 1 by the latest model result.
UpdatedConversationLatest(h, turns, parsed, score, category, t) ==
    [score |-> score,
     sentiment |-> Get(parsed, "sentiment", ""),
     initial_transcription |-> Get(h, "initial_transcription", ""),
     initial_feedback_points |-> Get(parsed, "feedback", <<>>),
     business_category |-> category,
     turns |-> turns,
     latest_analysis |-> parsed,
     metadata |-> [total_turns |-> Len(turns),
                   requires_followup |-> Get(parsed, "requiresFollowUp", JTrue),
                   conversation_complete |->
                       Get(parsed, "conversationComplete", JFalse),
                   updated_at |-> t],
     saved_at |-> t]
\* submit_followup: the snapshot it saves.
UpdatedConversation(h, turns, parsed, score, category, t) ==
    [score |-> score,
     sentiment |-> Get(h, "sentiment", ""),
     initial_transcription |-> Get(h, "initial_transcription", ""),
     initial_feedback_points |-> Get(h, "feedback", <<>>),
     business_category |-> category,
     turns |-> turns,
     latest_analysis |-> parsed,
     metadata |-> [total_turns |-> Len(turns),
                   requires_followup |-> Get(parsed, "requiresFollowUp", JTrue),
                   conversation_complete |->
                       Get(parsed, "conversationComplete", JFalse),
                   updated_at |-> t],
     saved_at |-> t]

FollowupResultClosesAtThree(parsed, history, score) ==
    [transcription |-> Get(parsed, "transcription", ""),
     conversationalResponse |-> Get(parsed, "conversationalResponse", ""),
     requiresFollowUp |-> IF Len(history["turns"]) >= 3 THEN JFalse
                          ELSE Get(parsed, "requiresFollowUp", JTrue),
     conversationComplete |-> IF Len(history["turns"]) >= 3 THEN JTrue
                              ELSE Get(parsed, "conversationComplete", JFalse),
     score |-> score,
     history |-> history]
\* submit_followup: the object it returns.
FollowupResult(parsed, history, score) ==
    [transcription |-> Get(parsed, "transcription", ""),
     conversationalResponse |-> Get(parsed, "conversationalResponse", ""),
     requiresFollowUp |-> Get(parsed, "requiresFollowUp", JTrue),
     conversationComplete |-> Get(parsed, "conversationComplete", JFalse),
     score |-> score,
     history |-> history]

\* -------------------------------------------------------------- store

\* conversation_<%Y%m%d_%H%M%S>.json, named by the second of the save.
FileName(t) == <<"conversation", t>>
Files == {FileName(t) : t \in 0..MaxTime}

\* A file of the conversations directory: absent, holding bytes that are no
\* complete JSON document (just truncated by open(path, "w"), or left by a
\* dump that did not finish), or holding the JSON of a snapshot.
Absent == [state |-> "absent", data |-> EmptyDict]
Partial == [state |-> "partial", data |-> EmptyDict]
Json(payload) == [state |-> "json", data |-> payload]
\* A file holding a complete JSON document that is no object, such as [].
NotObject == [state |-> "notobject", data |-> EmptyDict]

\* load_conversation_records: the summary of one readable file.
\* Neither snapshot has a final_analysis key, so final_analysis is {}.
Record(f, data) ==
    LET final_analysis == Get(data, "final_analysis", EmptyDict)
    IN  [filename |-> f,
         saved_at |-> Get(data, "saved_at", None),
         score |-> Get(data, "score", None),
         sentiment |-> Or(Get(data, "sentiment", None),
                          Get(final_analysis, "sentiment", None)),
         requires_followup |-> Get(final_analysis, "requiresFollowUp", None),
         conversation_complete |->
             Get(final_analysis, "conversationComplete", None),
         total_turns |-> Len(Get(data, "turns", <<>>)),
         initial_transcription |-> Get(data, "initial_transcription", None),
         final_transcription |-> Get(final_analysis, "transcription", None),
         final_response |->
             Get(final_analysis, "conversationalResponse", None),
         initial_feedback_points |->
             LET a == Get(data, "initial_feedback_points", <<>>)
             IN  IF a # <<>> THEN a ELSE Get(data, "initial_feedback", <<>>)]

\* load_conversation_records over the files f, f+1, ... in name order: a
\* file that json.load cannot read is skipped.
RECURSIVE LoadFrom(_, _)
LoadFrom(dir, t) ==
    IF FileName(t) \notin Files THEN <<>>
    ELSE IF dir[FileName(t)].state = "absent" THEN LoadFrom(dir, t + 1)
    ELSE IF dir[FileName(t)].state # "json" THEN LoadFrom(dir, t + 1)
    ELSE <<Record(FileName(t), dir[FileName(t)].data)>>
         \o LoadFrom(dir, t + 1)
\* load_conversation_records, when no file stops it
LoadConversationRecords(dir) == LoadFrom(dir, 0)

\* load_conversation_records: data.get(...) follows the try that guards
\* open and json.load, so a document that json.load reads and that has no
\* .get raises AttributeError out of the function.
LoadError(dir) ==
    IF \E f \in Files : dir[f].state = "notobject" THEN "AttributeError"
    ELSE None

\* What a call of load_conversation_records gives its caller.
Load(dir) ==
    [ran |-> TRUE, error |-> LoadError(dir),
     records |-> IF LoadError(dir) = None THEN LoadConversationRecords(dir)
                 ELSE <<>>]

\* ------------------------------------------------------------- state

VARIABLES
    now,         \* the wall clock, in seconds
    store,       \* the conversations directory: file name -> file
    started,     \* requests issued so far
    held,        \* per client: the history it carries between requests
    pc,          \* per client: where its request is ("idle": none running)
    req,         \* per client: the request's form fields
    outcome,     \* per client: what the model call gave
    parsed,      \* per client: the handler's local `parsed`
    history,     \* per client: the handler's local `history`
    payload,     \* per client: the dict handed to save_conversation_file
    file,        \* per client: <<the file name save_conversation_file chose>>
    before,      \* per client, while it writes: the file as it was when
                 \* open(path, "w") took it
    resp,        \* per client: the response of its last request
    io,          \* per client: what the request did with audio_data, the
                 \* temporary file and the uploaded handle it made and what
                 \* its finally block did with them, and
                 \* what it passed to generate_content_async
    modelCalls,  \* per client: generate_content_async calls of the request
    saveCalls,   \* per client: save_conversation_file calls of the request
    savesTo,     \* per file name: the save_conversation_file calls that returned
    initialSnapshot,  \* per client: of the conversation whose history it
                 \* holds, the turn-1 fields of the snapshot submit_feedback
                 \* handed to the save
    loaded,      \* what load_conversation_records returned in the step just
                 \* taken: the local of the analytics handler
    query,       \* the query parameters of GET /analytics/summary
    answer,      \* the response of GET /analytics/summary
    records,     \* the argument of compute_analytics
    summary,     \* what compute_analytics returned for it
    text,        \* the argument of extract_json_from_text
    extracted,   \* what extract_json_from_text did with it
    fileLock,    \* ehr_han.py: the task that holds file_lock, or None
    dbFile,      \* ehr_han.py: DB_FILE on disk
    task,        \* ehr_han.py: per task, the request it runs and its locals
    appended,    \* ehr_han.py: the entries whose append is complete, in
                 \* the order of their appends
    logStarted   \* ehr_han.py: requests issued so far

\* The variables of the feedback log of ehr_han.py.
logVars == <<fileLock, dbFile, task, appended, logStarted>>

\* The variables the two POST handlers leave alone.
readVars == <<query, answer, records, summary, text, extracted, logVars>>

\* The variables of server.py that the handlers of ehr_han.py leave alone.
serverVars == <<now, store, started, held, pc, req, outcome, parsed,
                history, payload, file, before, resp, io, modelCalls,
                saveCalls, savesTo, initialSnapshot, loaded, query, answer,
                records, summary, text, extracted>>

vars == <<now, store, started, held, pc, req, outcome, parsed,
          history, payload, file, before, resp, io, modelCalls, saveCalls,
          savesTo, initialSnapshot, loaded, readVars>>

NoRequest ==
    [kind |-> "none", score |-> 0, transcription |-> None, audio |-> "none",
     uploadOk |-> TRUE, category |-> None, history |-> NoHistory]
NoOutcome == [kind |-> "none", parsed |-> EmptyDict]
NotLoaded == [ran |-> FALSE, error |-> None, records |-> <<>>]
NoQuery == [start_date |-> None, end_date |-> None]
NotCalled == [called |-> FALSE]
NoIO == [audio |-> "untouched", call |-> "none", temp |-> "none",
         handle |-> "none", unlink |-> "notcalled", delete |-> "notcalled"]
NoSnapshot == [kind |-> "none", value |-> EmptyDict]

\* No request has come in.
\* ehr_han.py: the tasks that run its requests concurrently.
LogTasks == {"t1", "t2", "t3"}
\* DB_FILE does not exist.
NoFile == [exists |-> FALSE, text |-> <<>>]
\* A task that runs no request.
NoTask ==
    [pc |-> "idle", kind |-> "none", entry |-> 0, flushed |-> 0, pos |-> 0,
     all_feedback |-> <<>>, seen |-> 0, waited |-> FALSE,
     resp |-> NoResponse]

NoRequests ==
    /\ fileLock = None
    /\ dbFile = NoFile
    /\ task = [t \in LogTasks |-> NoTask]
    /\ appended = <<>>
    /\ logStarted = 0
    /\ now = 0
    /\ started = 0
    /\ held = [c \in Clients |-> NoHistory]
    /\ pc = [c \in Clients |-> "idle"]
    /\ req = [c \in Clients |-> NoRequest]
    /\ outcome = [c \in Clients |-> NoOutcome]
    /\ parsed = [c \in Clients |-> EmptyDict]
    /\ history = [c \in Clients |-> EmptyDict]
    /\ payload = [c \in Clients |-> EmptyDict]
    /\ file = [c \in Clients |-> <<>>]
    /\ resp = [c \in Clients |-> NoResponse]
    /\ io = [c \in Clients |-> NoIO]
    /\ modelCalls = [c \in Clients |-> 0]
    /\ saveCalls = [c \in Clients |-> 0]
    /\ savesTo = [f \in Files |-> 0]
    /\ before = [c \in Clients |-> Absent]
    /\ initialSnapshot = [c \in Clients |-> NoSnapshot]
\* GET /analytics/summary has not been called.
NoAnalytics ==
    /\ loaded = NotLoaded
    /\ query = NoQuery
    /\ answer = NoResponse
\* compute_analytics and extract_json_from_text have not been called.
NoCalls ==
    /\ records = <<>>
    /\ summary = NotCalled
    /\ text = <<>>
    /\ extracted = NotCalled

Init ==
    /\ NoRequests
    /\ store = [f \in Files |-> Absent]
    /\ NoAnalytics
    /\ NoCalls

\* The form fields a client may send.
FormFields(kind, h) ==
    [kind : {kind}, score : Scores, transcription : Transcriptions,
     audio : Audios, uploadOk : BOOLEAN, category : Categories,
     history : {h}]

\* tempfile.NamedTemporaryFile(delete=False, suffix=ext) makes the file;
\* temp_path is bound after tf.write(audio_bytes) returned.  A write that
\* raises leaves the file without a name in the handler ("unnamed").
TempFile(writes, writeOk) ==
    IF ~writes THEN "none"
    ELSE IF writeOk THEN "named" ELSE "unnamed"
\* audio_file_handle = genai.upload_file(path=temp_path, ...)
AudioFileHandle(temp, uploadOk) ==
    IF temp = "named" /\ uploadOk THEN "obtained" ELSE "none"
\* The handler's last except: an exception that is no HTTPException
\* becomes a 500 with its text.
Unhandled(e) == HTTPException(500, e)

\* safe_delete_temp(temp_path): nothing without a path; else os.unlink,
\* whose exception is printed.
SafeDeleteTemp(temp, unlinkOk) ==
    IF temp # "named" THEN "notcalled"
    ELSE IF unlinkOk THEN "removed" ELSE "failed"
\* safe_delete_genai_file(audio_file_handle): nothing without a handle;
\* else genai.delete_file, whose exception is printed.
SafeDeleteGenaiFile(handle, deleteOk) ==
    IF handle = "none" THEN "notcalled"
    ELSE IF deleteOk THEN "removed" ELSE "failed"
\* The finally block of both handlers.
Finally(i, unlinkOk, deleteOk) ==
    [i EXCEPT !.unlink = SafeDeleteTemp(i.temp, unlinkOk),
              !.delete = SafeDeleteGenaiFile(i.handle, deleteOk)]
\* The finally block runs in the step in which the handler of c returns or
\* raises.
Exit(c) ==
    \E unlinkOk \in IF io[c].temp = "named" THEN BOOLEAN ELSE {TRUE},
       deleteOk \in IF io[c].handle = "obtained" THEN BOOLEAN ELSE {TRUE} :
        io' = IF pc'[c] = "idle"
              THEN [io EXCEPT ![c] = Finally(io[c], unlinkOk, deleteOk)]
              ELSE io

\* A request arrives and runs to its first model call or to its rejection.
\* `ut` is its user_transcription; the write of the temporary file
\* succeeds or raises.
Arrive(c, r, rejection, ut, writeOk) ==
    /\ pc[c] = "idle"
    /\ started' = started + 1
    /\ req' = [req EXCEPT ![c] = r]
    /\ outcome' = [outcome EXCEPT ![c] = NoOutcome]
    /\ parsed' = [parsed EXCEPT ![c] = EmptyDict]
    /\ history' = [history EXCEPT ![c] = EmptyDict]
    /\ payload' = [payload EXCEPT ![c] = EmptyDict]
    /\ file' = [file EXCEPT ![c] = <<>>]
    /\ before' = [before EXCEPT ![c] = Absent]
    /\ modelCalls' = [modelCalls EXCEPT ![c] = 0]
    /\ saveCalls' = [saveCalls EXCEPT ![c] = 0]
    /\ resp' = [resp EXCEPT ![c] = rejection]
    /\ pc' = [pc EXCEPT ![c] =
                 IF rejection = NoResponse THEN "calling" ELSE "idle"]
    /\ LET audio == IF ~ReachesAudio(r) THEN "untouched"
                    ELSE IF WritesTemp(r) /\ ~writeOk THEN "read"
                    ELSE AudioUse(r)
           temp == TempFile(WritesTemp(r), writeOk)
           made == [NoIO EXCEPT
                       !.audio = audio,
                       !.call = IF rejection = NoResponse
                                THEN ModelCallWith(r, ut) ELSE "none",
                       !.temp = temp,
                       !.handle = AudioFileHandle(temp, r.uploadOk)]
       IN  \E unlinkOk \in IF temp = "named" THEN BOOLEAN ELSE {TRUE},
              deleteOk \in IF made.handle = "obtained"
                           THEN BOOLEAN ELSE {TRUE} :
               io' = [io EXCEPT ![c] =
                         IF rejection = NoResponse THEN made
                         ELSE Finally(made, unlinkOk, deleteOk)]
    /\ loaded' = NotLoaded
    /\ UNCHANGED readVars
    /\ UNCHANGED <<now, store, held, savesTo, initialSnapshot>>

\* POST /submit_feedback, to the await of the model call.
SubmitFeedback(c, r) ==
    /\ r.uploadOk \/ (r.audio = "data" /\ ~Truthy(r.transcription))
    /\ \E writeOk \in IF r.uploadOk /\ WritesTemp(r)
                       THEN BOOLEAN ELSE {TRUE} :
          /\ Arrive(c, r,
                    IF writeOk THEN FeedbackRejection(r)
                    ELSE Unhandled("[Errno 28] No space left on device"),
                    FeedbackUserTranscription(r), writeOk)

\* POST /submit_followup, to the await of the model call.  The client sends
\* the history it holds, or a conversation_history that is malformed.
SubmitFollowup(c, r) ==
    /\ r.uploadOk \/ (r.audio = "data" /\ ~Truthy(r.transcription))
    /\ \E writeOk \in IF r.uploadOk /\ WritesTemp(r)
                       THEN BOOLEAN ELSE {TRUE} :
          /\ Arrive(c, r,
                    IF writeOk THEN FollowupRejection(r)
                    ELSE Unhandled("[Errno 28] No space left on device"),
                    FollowupUserTranscription(r), writeOk)

SavesInitialOnlyWhenDone(p) == p["requiresFollowUp"] = JFalse
\* "Save initial conversation even if follow-up needed": the save of
\* submit_feedback is under no condition.
SavesInitial(p) == TRUE

SavesFollowupOnlyWhenComplete(p) == p["conversationComplete"] = JTrue
\* "Always save follow-up conversation": the save of submit_followup is
\* under no condition.
SavesFollowup(p) == TRUE

\* The fields of a snapshot that describe turn 1.
TurnOne(conv) ==
    [sentiment |-> conv["sentiment"],
     initial_transcription |-> conv["initial_transcription"],
     initial_feedback_points |-> conv["initial_feedback_points"]]

\* With the history that a successful submit_feedback returns, the client
\* is in the conversation of the snapshot that request handed to the save.
Begins(c) ==
    initialSnapshot' =
        IF /\ req[c].kind = "feedback" /\ pc'[c] = "idle"
           /\ resp'[c].status = 200 /\ payload'[c] # EmptyDict
        THEN [initialSnapshot EXCEPT
                 ![c] = [kind |-> "snapshot", value |-> TurnOne(payload'[c])]]
        ELSE initialSnapshot

\* The handler returns: the client gets the response and, with a success,
\* the history to send with its next request.
Return(c, response) ==
    /\ resp' = [resp EXCEPT ![c] = response]
    /\ pc' = [pc EXCEPT ![c] = "idle"]
    /\ held' = IF response.status = 200
               THEN [held EXCEPT ![c] =
                        [kind |-> "object", value |-> response.body["history"]]]
               ELSE held

\* The handler raises an HTTPException after the model call.
Raise(c, e) ==
    /\ Return(c, e)
    /\ UNCHANGED <<parsed, history, payload, file, before, saveCalls, store>>

SaveFailureResponseRaises(body) == HTTPException(500, "save failed")
\* except Exception around the save: the failure is printed and the handler
\* goes on to return its result.
SaveFailureResponse(body) == Response(200, "", body)

\* The try block around save_conversation_file, up to open(path, "w"):
\* the file is truncated, or open raises and the handler returns `body`.
\* Without a save the handler returns `body` at once.
Persist(c, saves, conv, openOk, body) ==
    LET f == FileName(now)
    IN  IF ~saves
        THEN /\ Return(c, Response(200, "", body))
             /\ UNCHANGED <<payload, file, before, saveCalls, store>>
        ELSE /\ payload' = [payload EXCEPT ![c] = conv]
             /\ saveCalls' = [saveCalls EXCEPT ![c] = @ + 1]
             /\ IF openOk
                THEN /\ file' = [file EXCEPT ![c] = <<f>>]
                     /\ before' = [before EXCEPT ![c] = store[f]]
                     /\ store' = [store EXCEPT ![f] = Partial]
                     /\ pc' = [pc EXCEPT ![c] = "writing"]
                     /\ UNCHANGED <<resp, held>>
                ELSE /\ Return(c, SaveFailureResponse(body))
                     /\ UNCHANGED <<file, before, store>>

\* submit_feedback from the return of the model call to open(path, "w") of
\* the save, or to the response when it raises before.
FeedbackResume(c, o, openOk) ==
    /\ pc[c] = "calling"
    /\ req[c].kind = "feedback"
    /\ modelCalls' = [modelCalls EXCEPT ![c] = @ + 1]
    /\ outcome' = [outcome EXCEPT ![c] = o]
    /\ loaded' = NotLoaded
    /\ UNCHANGED readVars
    /\ UNCHANGED <<now, started, req, savesTo>>
    /\ LET r == req[c]
           ut == FeedbackUserTranscription(r)
           p == Normalize(o.parsed)
           failure == ModelFailure(o, "Error calling model",
                                   "Failed to parse model response as JSON")
       IN  IF failure # NoResponse
           THEN Raise(c, failure)
           ELSE IF FlagTypeError(p) # ""
           THEN Raise(c, HTTPException(500, FlagTypeError(p)))
           ELSE LET pd == FeedbackParsed(p, ut, r.score)
                    h == InitialHistory(pd, r.score, r.category)
                IN  /\ parsed' = [parsed EXCEPT ![c] = pd]
                    /\ history' = [history EXCEPT ![c] = h]
                    /\ Persist(c, SavesInitial(pd),
                               InitialConversation(pd, r.score, r.category, now),
                               openOk, FeedbackResult(pd, h, <<>>))
    /\ Begins(c)
    /\ Exit(c)

RequestHistoryOfLastSession(c, r) ==
    IF \E d \in Clients \ {c} : held[d] # NoHistory
    THEN held[CHOOSE d \in Clients \ {c} : held[d] # NoHistory].value
    ELSE r.history.value
\* history = json.loads(conversation_history): the history the handler
\* works on is a local, parsed from its own request.
RequestHistory(c, r) == r.history.value

\* submit_followup from the return of the model call to open(path, "w") of
\* the save, or to the response when it raises before.
FollowupResume(c, o, openOk) ==
    /\ pc[c] = "calling"
    /\ req[c].kind = "followup"
    /\ modelCalls' = [modelCalls EXCEPT ![c] = @ + 1]
    /\ outcome' = [outcome EXCEPT ![c] = o]
    /\ loaded' = NotLoaded
    /\ UNCHANGED readVars
    /\ UNCHANGED <<now, started, req, savesTo>>
    /\ LET r == req[c]
           h0 == RequestHistory(c, r)
           ut == FollowupUserTranscription(r)
           p == Normalize(o.parsed)
           failure == ModelFailure(o, "Model error",
                                   "Failed to parse model response")
       IN  IF failure # NoResponse
           THEN Raise(c, failure)
           ELSE IF FlagTypeError(p) # ""
           THEN Raise(c, HTTPException(500, FlagTypeError(p)))
           ELSE IF AppendRejection(r.history) # NoResponse
           THEN Raise(c, AppendRejection(r.history))
           ELSE LET pd == FollowupParsed(p, ut, r.score)
                    turns == Append(Get(h0, "turns", <<>>), NewTurn(pd, ut))
                    h == UpdatedHistory(h0, turns, pd, r.score, r.category, now)
                IN  /\ parsed' = [parsed EXCEPT ![c] = pd]
                    /\ history' = [history EXCEPT ![c] = h]
                    /\ Persist(c, SavesFollowup(pd),
                               UpdatedConversation(h0, turns, pd, r.score,
                                                   r.category, now),
                               openOk, FollowupResult(pd, h, r.score))
    /\ Begins(c)
    /\ Exit(c)

\* save_conversation_file from json.dump to its return, and the handler to
\* its response.  The dump completes (ok) or raises, leaving the bytes it
\* wrote.  A dump into a file another process completed since this one
\* truncated it may leave that file's tail behind its own bytes (clobbered).
SaveWrite(c, ok, clobbered) ==
    /\ pc[c] = "writing"
    /\ LET f == file[c][1]
           pd == IF ok THEN Put(parsed[c], "saved_conversation_file", f)
                 ELSE parsed[c]
           body == IF req[c].kind = "feedback"
                   THEN FeedbackResult(parsed[c], history[c],
                                       IF ok THEN <<f>> ELSE <<>>)
                   ELSE FollowupResult(pd, history[c], req[c].score)
       IN  /\ clobbered => ok /\ store[f].state = "json"
           /\ store' = [store EXCEPT ![f] =
                           IF ok /\ ~clobbered THEN Json(payload[c])
                           ELSE Partial]
           /\ savesTo' = IF ok THEN [savesTo EXCEPT ![f] = @ + 1] ELSE savesTo
           /\ parsed' = [parsed EXCEPT ![c] = pd]
           /\ Return(c, IF ok THEN Response(200, "", body)
                        ELSE SaveFailureResponse(body))
    /\ loaded' = NotLoaded
    /\ UNCHANGED readVars
    /\ before' = [before EXCEPT ![c] = Absent]
    /\ UNCHANGED <<now, started, req, outcome, history, payload, file,
                   modelCalls, saveCalls>>
    /\ Begins(c)
    /\ Exit(c)

\* GET /analytics/summary, to the return of load_conversation_records.
LoadRecords ==
    /\ loaded' = Load(store)
    /\ UNCHANGED readVars
    /\ UNCHANGED <<now, store, started, held, pc, req, outcome,
                   parsed, history, payload, file, before, resp, io,
                   modelCalls, saveCalls, savesTo, initialSnapshot>>

\* A second passes.
Tick ==
    /\ now < MaxTime
    /\ now' = now + 1
    /\ loaded' = NotLoaded
    /\ UNCHANGED readVars
    /\ UNCHANGED <<store, started, held, pc, req, outcome, parsed,
                   history, payload, file, before, resp, io, modelCalls,
                   saveCalls, savesTo, initialSnapshot>>

\* ------------------------------------------------------ specifications

\* Spec: two clients.  Each sends its text with a score of 10; the model
\* call raises, or answers with a JSON object without the two flags or with
\* one that completes the conversation; open(path, "w") succeeds and the
\* dump may fail.
TextRequest(kind, score, h) ==
    [kind |-> kind, score |-> score, transcription |-> "hi ",
     audio |-> "none", uploadOk |-> TRUE, category |-> None, history |-> h]
Requests(kind, h) == {TextRequest(kind, 10, h)}
Outcomes ==
    {o \in ModelOutcomes :
        \/ o.kind = "error"
        \/ o.kind = "json" /\ o.parsed \in {EmptyDict,
                                            Flags(JFalse, JTrue) @@ RichFields}}

\* The conversation_history a client sends: the history it holds, or a
\* malformed one.
SentHistories(c) == MalformedHistories \cup ({held[c]} \ {NoHistory})

Next ==
    \/ \E c \in Clients :
          \E r \in Requests("feedback", NoHistory) :
             started < MaxRequests /\ SubmitFeedback(c, r)
    \/ \E c \in Clients :
          \E r \in Requests("followup", held[c]) :
             /\ started < MaxRequests
             /\ held[c] # NoHistory
             /\ SubmitFollowup(c, r)
    \/ \E c \in Clients, o \in Outcomes, openOk \in {TRUE} :
          FeedbackResume(c, o, openOk)
    \/ \E c \in Clients, o \in Outcomes, openOk \in {TRUE} :
          FollowupResume(c, o, openOk)
    \/ \E c \in Clients, ok \in BOOLEAN, clobbered \in BOOLEAN :
          SaveWrite(c, ok, clobbered)
    \/ LoadRecords
    \/ Tick

Spec == Init /\ [][Next]_vars

\* SpecSession: one client.  Its requests are the text request with every
\* score, every combination of transcription and audio, and a business
\* category.  A follow-up carries the history the client holds, a malformed
\* one, or one kept from an earlier session (LongHistory: after three
\* follow-ups).  A blank transcription comes with audio; LongHistory and the
\* malformed histories come with the text request.  To the text request
\* with score 10 the model gives every outcome, to the others those of
\* Spec; open and dump may fail.
SessionClient == CHOOSE c \in Clients : TRUE
LongHistory ==
    [initial_transcription |-> "hi", score |-> 10, sentiment |-> "Negative",
     feedback |-> <<"slow">>,
     turns |-> <<[ai |-> "q1", user |-> "a1"], [ai |-> "q2", user |-> "a2"],
                 [ai |-> "q3", user |-> "a3"]>>,
     business_category |-> "medical", conversationComplete |-> JFalse,
     last_updated |-> 0]
ClientHistories ==
    {[kind |-> "object",
      value |-> InitialHistory(FeedbackParsed(Normalize(p), "hi", 10),
                               10, None)] :
        p \in {EmptyDict, Flags(JFalse, JTrue) @@ RichFields}}
    \cup {[kind |-> "object", value |-> LongHistory]}
SessionOutcomes(r) ==
    IF r = TextRequest(r.kind, 10, r.history) THEN ModelOutcomes
    ELSE Outcomes
SessionRequests(kind, h) ==
    {TextRequest(kind, score, h) : score \in Scores}
    \cup {r \in FormFields(kind, h) :
             /\ r.score = 10
             /\ r.category = None
             /\ r.transcription = " " => r.audio = "data" /\ r.uploadOk}
    \cup {[TextRequest(kind, 10, h) EXCEPT !.category = "medical"]}
SessionFollowups(h) ==
    IF h.kind = "object" /\ h.value # LongHistory
    THEN SessionRequests("followup", h)
    ELSE {TextRequest("followup", score, h) : score \in Scores}

NextSession ==
    \/ \E r \in SessionRequests("feedback", NoHistory) :
          started < MaxSessionRequests /\ SubmitFeedback(SessionClient, r)
    \/ \E h \in SentHistories(SessionClient) \cup ClientHistories :
          \E r \in SessionFollowups(h) :
             started < MaxSessionRequests /\ SubmitFollowup(SessionClient, r)
    \/ \E o \in SessionOutcomes(req[SessionClient]), openOk \in BOOLEAN :
          FeedbackResume(SessionClient, o, openOk)
    \/ \E o \in SessionOutcomes(req[SessionClient]), openOk \in BOOLEAN :
          FollowupResume(SessionClient, o, openOk)
    \/ \E ok \in BOOLEAN, clobbered \in BOOLEAN :
          SaveWrite(SessionClient, ok, clobbered)
    \/ LoadRecords
    \/ Tick

SpecSession == Init /\ [][NextSession]_vars

\* ---------------------------------------------------------- properties

\* A request of client c ran to its response.
Done(c) == req[c].kind # "none" /\ pc[c] = "idle"

\* The snapshots the store holds under the name of file f.
SnapshotsAt(f) == IF store[f].state = "json" THEN 1 ELSE 0

\* C1: saves that fall in the same second do not overwrite each other: once
\* they have returned, each has its own snapshot in the store, so the store
\* holds as many snapshots of that second as saves returned in it.
C1_SavesOfOneSecondAllKept ==
    \A f \in Files :
        (\A c \in Clients : pc[c] = "writing" => file[c][1] # f)
            => savesTo[f] <= SnapshotsAt(f)

\* C2: the store is an append-only log: a snapshot, once written, is not
\* deleted and not changed by any later step.
C2_SnapshotsNeverChange ==
    [][\A f \in Files : store[f].state = "json" => store'[f] = store[f]]_vars

\* What load_conversation_records returned for file f, and what it returns
\* for a file in state st.
RecordsOf(f) == SelectSeq(loaded.records, LAMBDA r : r.filename = f)
RecordsOfFile(f, st) ==
    IF st.state = "json" THEN <<Record(f, st.data)>> ELSE <<>>

\* C3: a load that runs while a save writes file f returns for f what the
\* file held before the save (nothing, or the earlier snapshot) or the
\* snapshot being saved, never anything else.
C3_LoadSeesOldOrNew ==
    loaded.ran =>
        \A c \in Clients :
            pc[c] = "writing" =>
                RecordsOf(file[c][1]) \in
                    {RecordsOfFile(file[c][1], before[c]),
                     RecordsOfFile(file[c][1], Json(payload[c]))}

\* C4: a request whose score is outside 0..10 is rejected with the 400 of
\* the score check, by submit_feedback and by submit_followup alike, and
\* it makes no model call and no save.
C4_BadScoreRejected ==
    \A c \in Clients :
        req[c].kind # "none" /\ req[c].score \notin 0..10 =>
            /\ pc[c] = "idle"
            /\ resp[c] = HTTPException(400, "Score must be 0-10")
            /\ modelCalls[c] = 0
            /\ saveCalls[c] = 0
            /\ file[c] = <<>>

\* A follow-up with a well-formed history and a score of 11 was rejected.
C4_Witness ==
    \E c \in Clients :
        /\ Done(c)
        /\ req[c].kind = "followup"
        /\ req[c].history.kind = "object"
        /\ req[c].score = 11
        /\ resp[c].status = 400

\* The history h says that its conversation is complete, and the store
\* holds the snapshot of the turn that completed it.
Complete(h) ==
    h.kind = "object" /\ Get(h.value, "conversationComplete", JFalse) = JTrue
Persisted(h) ==
    \E f \in Files :
        /\ store[f].state = "json"
        /\ store[f].data["turns"] = h.value["turns"]
        /\ "latest_analysis" \in DOMAIN store[f].data
        /\ store[f].data["metadata"]["conversation_complete"] = JTrue

\* C5, as stated: once a conversation returned conversationComplete = true
\* and that result was persisted, a follow-up that carries the completed
\* history appends no turn and writes no snapshot.
C5_CompleteIsTerminal ==
    \A c \in Clients :
        /\ req[c].kind = "followup"
        /\ Complete(req[c].history)
        /\ Persisted(req[c].history)
        => /\ history[c] = EmptyDict
           /\ saveCalls[c] = 0
           /\ resp[c].status # 200

\* C5, amended: submit_followup does not look at conversationComplete of
\* the history it is sent.  A follow-up that carries a completed history is
\* processed like any other: the model is called once and, when its answer
\* passes extraction and normalization, one turn is appended to the
\* history and one save is attempted.
C5_CompletedHistoryContinues ==
    \A c \in Clients :
        /\ Done(c)
        /\ req[c].kind = "followup"
        /\ Complete(req[c].history)
        /\ ValidScore(req[c].score)
        /\ InputRejection(req[c], "", "") = NoResponse
        => /\ modelCalls[c] = 1
           /\ outcome[c].kind = "json"
              /\ FlagTypeError(Normalize(outcome[c].parsed)) = ""
              => /\ resp[c].status = 200
                 /\ Len(resp[c].body["history"]["turns"])
                       = Len(req[c].history.value["turns"]) + 1
                 /\ saveCalls[c] = 1

\* A follow-up sent with a completed and persisted history got a 200, a
\* longer history and a save.
C5_Witness ==
    \E c \in Clients :
        /\ Done(c)
        /\ req[c].kind = "followup"
        /\ Complete(req[c].history)
        /\ resp[c].status = 200
        /\ Len(resp[c].body["history"]["turns"])
              = Len(req[c].history.value["turns"]) + 1
        /\ saveCalls[c] = 1
        /\ "saved_conversation_file" \in DOMAIN parsed[c]
        /\ Persisted(req[c].history)

\* The model call of client c's request gave a JSON object whose two flags
\* are boolean after the defaults.
ModelSucceeded(c) ==
    /\ outcome[c].kind = "json"
    /\ FlagTypeError(Normalize(outcome[c].parsed)) = ""

\* The save of client c's request raised, in open or in the dump.
SaveFailed(c) ==
    /\ Done(c)
    /\ saveCalls[c] = 1
    /\ "saved_conversation_file" \notin DOMAIN parsed[c]

\* C6: a submit_feedback that passes validation, the model call, extraction
\* and normalization calls save_conversation_file once before it responds,
\* whatever requiresFollowUp is; the snapshot has turns = [] and
\* metadata.total_turns = 0, and the returned history has turns = [].
C6_InitialSnapshotAlways ==
    \A c \in Clients :
        Done(c) /\ req[c].kind = "feedback" /\ ModelSucceeded(c) =>
            /\ saveCalls[c] = 1
            /\ payload[c]["turns"] = <<>>
            /\ payload[c]["metadata"]["total_turns"] = 0
            /\ resp[c].status = 200
            /\ resp[c].body["history"]["turns"] = <<>>

\* A submit_feedback whose result asks for a follow-up wrote its snapshot.
C6_Witness ==
    \E c \in Clients :
        /\ Done(c)
        /\ req[c].kind = "feedback"
        /\ resp[c].status = 200
        /\ resp[c].body["requiresFollowUp"] = JTrue
        /\ "saved_conversation_file" \in DOMAIN resp[c].body
        /\ store[file[c][1]] = Json(payload[c])
        /\ payload[c]["turns"] = <<>>

\* C7: a submit_followup whose model call, extraction and normalization
\* succeed calls save_conversation_file once, whether or not the result
\* completes the conversation; the snapshot of the n-th follow-up of a
\* conversation holds n turns, and without a save failure it was written.
C7_FollowupSnapshotAlways ==
    \A c \in Clients :
        Done(c) /\ req[c].kind = "followup" /\ ModelSucceeded(c) =>
            /\ saveCalls[c] = 1
            /\ payload[c]["metadata"]["total_turns"]
                  = Len(req[c].history.value["turns"]) + 1
            /\ Len(payload[c]["turns"]) = payload[c]["metadata"]["total_turns"]
            /\ ~SaveFailed(c) => savesTo[file[c][1]] >= 1

\* The second follow-up of a conversation, not yet complete, wrote its
\* snapshot of two turns.
C7_Witness ==
    \E c \in Clients :
        /\ Done(c)
        /\ req[c].kind = "followup"
        /\ resp[c].status = 200
        /\ resp[c].body["conversationComplete"] = JFalse
        /\ Len(payload[c]["turns"]) = 2
        /\ store[file[c][1]] = Json(payload[c])

\* What the handler of client c's request returns when its save returns.
ResultFields ==
    {"transcription", "conversationalResponse", "requiresFollowUp",
     "conversationComplete", "score", "history"}
ResultWithSave(c) ==
    IF req[c].kind = "feedback"
    THEN FeedbackResult(parsed[c], history[c], <<FileName(now)>>)
    ELSE FollowupResult(Put(parsed[c], "saved_conversation_file",
                            FileName(now)),
                        history[c], req[c].score)

\* C8: when the save raises, submit_feedback and submit_followup still
\* answer 200, with the transcription, conversationalResponse,
\* requiresFollowUp, conversationComplete, score and history they return
\* when the save returns.
C8_SaveFailureSwallowed ==
    \A c \in Clients :
        SaveFailed(c) =>
            /\ resp[c].status = 200
            /\ \A k \in ResultFields : resp[c].body[k] = ResultWithSave(c)[k]

\* A follow-up whose dump raised after open had truncated the file.
C8_Witness ==
    \E c \in Clients :
        /\ SaveFailed(c)
        /\ req[c].kind = "followup"
        /\ file[c] # <<>>
        /\ store[file[c][1]] = Partial
        /\ resp[c].status = 200

\* C9: when the model call or extract_json_from_text raises, the request
\* ends with a 500, after its one model call, without a save and without
\* a history in its response; no request calls the model twice.
C9_ModelFailureIsTerminal ==
    \A c \in Clients :
        /\ modelCalls[c] <= 1
        /\ outcome[c].kind \in {"error", "nojson"} =>
              /\ Done(c)
              /\ resp[c].status = 500
              /\ modelCalls[c] = 1
              /\ saveCalls[c] = 0
              /\ file[c] = <<>>
              /\ "history" \notin DOMAIN resp[c].body

\* A follow-up whose model answer held no JSON object ended with a 500.
C9_Witness ==
    \E c \in Clients :
        /\ Done(c)
        /\ req[c].kind = "followup"
        /\ outcome[c].kind = "nojson"
        /\ resp[c].status = 500

\* The analysis a snapshot holds.
Analysis(data) ==
    IF "initial_analysis" \in DOMAIN data THEN data["initial_analysis"]
    ELSE data["latest_analysis"]

\* C10: when requiresFollowUp or conversationComplete is no boolean after
\* the defaults, the request fails with a 500 and saves nothing; every
\* result returned and every analysis persisted has both as booleans.
C10_FlagsBoolean ==
    /\ \A c \in Clients :
          /\ outcome[c].kind = "json"
             /\ (\E k \in {"requiresFollowUp", "conversationComplete"} :
                    ~IsBool(Normalize(outcome[c].parsed)[k]))
             => /\ Done(c)
                /\ resp[c].status = 500
                /\ saveCalls[c] = 0
          /\ resp[c].status = 200 =>
                /\ IsBool(resp[c].body["requiresFollowUp"])
                /\ IsBool(resp[c].body["conversationComplete"])
    /\ \A f \in Files :
          store[f].state = "json" =>
              /\ IsBool(Analysis(store[f].data)["requiresFollowUp"])
              /\ IsBool(Analysis(store[f].data)["conversationComplete"])

\* A request whose model answer had a boolean requiresFollowUp and a string
\* for conversationComplete ended with a 500 and without a save.
C10_Witness ==
    \E c \in Clients :
        /\ Done(c)
        /\ outcome[c].kind = "json"
        /\ IsBool(Get(outcome[c].parsed, "requiresFollowUp", None))
        /\ Get(outcome[c].parsed, "conversationComplete", None) = "\"yes\""
        /\ resp[c].status = 500
        /\ saveCalls[c] = 0

\* The logical negation of a boolean flag.
Negation(v) == IF v = JTrue THEN JFalse ELSE JTrue

\* C11: the default law.  A result whose parsed object had no
\* requiresFollowUp is returned with requiresFollowUp = true; one whose
\* parsed object had no conversationComplete is returned with
\* conversationComplete = NOT requiresFollowUp, false when both were absent.
C11_DefaultLaw ==
    \A c \in Clients :
        Done(c) /\ resp[c].status = 200 =>
            /\ "requiresFollowUp" \notin DOMAIN outcome[c].parsed
                  => resp[c].body["requiresFollowUp"] = JTrue
            /\ "conversationComplete" \notin DOMAIN outcome[c].parsed
                  => resp[c].body["conversationComplete"]
                        = Negation(resp[c].body["requiresFollowUp"])
            /\ DOMAIN outcome[c].parsed
                  \cap {"requiresFollowUp", "conversationComplete"} = {}
                  => resp[c].body["conversationComplete"] = JFalse

\* A follow-up whose model answer had neither flag came back with
\* requiresFollowUp = true and conversationComplete = false.
C11_Witness ==
    \E c \in Clients :
        /\ Done(c)
        /\ req[c].kind = "followup"
        /\ resp[c].status = 200
        /\ DOMAIN outcome[c].parsed
              \cap {"requiresFollowUp", "conversationComplete"} = {}
        /\ resp[c].body["requiresFollowUp"] = JTrue
        /\ resp[c].body["conversationComplete"] = JFalse

\* C12: a parsed object that has both flags as booleans, equal or not,
\* keeps both values in the returned result (a result is returned when the
\* follow-up's history has a list to append the turn to).
C12_CompleteResultUnchanged ==
    \A c \in Clients :
        /\ Done(c)
        /\ outcome[c].kind = "json"
        /\ AppendRejection(req[c].history) = NoResponse
        /\ IsBool(Get(outcome[c].parsed, "requiresFollowUp", None))
        /\ IsBool(Get(outcome[c].parsed, "conversationComplete", None))
        => /\ resp[c].status = 200
           /\ resp[c].body["requiresFollowUp"]
                 = outcome[c].parsed["requiresFollowUp"]
           /\ resp[c].body["conversationComplete"]
                 = outcome[c].parsed["conversationComplete"]

\* A follow-up whose model answer had both flags true came back with both
\* true.
C12_Witness ==
    \E c \in Clients :
        /\ Done(c)
        /\ req[c].kind = "followup"
        /\ outcome[c].kind = "json"
        /\ Get(outcome[c].parsed, "requiresFollowUp", None) = JTrue
        /\ Get(outcome[c].parsed, "conversationComplete", None) = JTrue
        /\ resp[c].status = 200
        /\ resp[c].body["requiresFollowUp"] = JTrue
        /\ resp[c].body["conversationComplete"] = JTrue

\* The turns of the history client c sent with its follow-up.
PriorTurns(c) == req[c].history.value["turns"]

\* C13: a successful follow-up sent with n prior turns returns a history
\* whose turns are those n turns, in their order, followed by one pair
\* whose ai is the returned conversationalResponse and whose user is the
\* returned transcription.
C13_TurnAppended ==
    \A c \in Clients :
        Done(c) /\ req[c].kind = "followup" /\ resp[c].status = 200 =>
            LET n == Len(PriorTurns(c))
                ts == resp[c].body["history"]["turns"]
            IN  /\ Len(ts) = n + 1
                /\ SubSeq(ts, 1, n) = PriorTurns(c)
                /\ ts[n + 1] =
                      [ai |-> resp[c].body["conversationalResponse"],
                       user |-> resp[c].body["transcription"]]

\* A follow-up sent with three different prior turns came back with four,
\* the last one holding a reply and a transcription that differ.
C13_Witness ==
    \E c \in Clients :
        /\ Done(c)
        /\ req[c].kind = "followup"
        /\ resp[c].status = 200
        /\ Len(PriorTurns(c)) = 3
        /\ PriorTurns(c)[1] # PriorTurns(c)[2]
        /\ Len(resp[c].body["history"]["turns"]) = 4
        /\ resp[c].body["conversationalResponse"]
              # resp[c].body["transcription"]

\* C14: the snapshot of a successful follow-up sent with n prior turns has
\* metadata.total_turns = n + 1 and the turns of the returned history,
\* whatever requiresFollowUp is; when the save returned, that snapshot is
\* what the file holds.
C14_SnapshotCountsTurns ==
    \A c \in Clients :
        Done(c) /\ req[c].kind = "followup" /\ resp[c].status = 200 =>
            /\ payload[c]["metadata"]["total_turns"] = Len(PriorTurns(c)) + 1
            /\ payload[c]["turns"] = resp[c].body["history"]["turns"]
            /\ "saved_conversation_file" \in DOMAIN parsed[c]
                  => store[file[c][1]] = Json(payload[c])

\* A follow-up sent with three prior turns, answered with
\* requiresFollowUp = false, left a snapshot with total_turns = 4.
C14_Witness ==
    \E c \in Clients :
        /\ Done(c)
        /\ req[c].kind = "followup"
        /\ resp[c].status = 200
        /\ resp[c].body["requiresFollowUp"] = JFalse
        /\ Len(PriorTurns(c)) = 3
        /\ file[c] # <<>>
        /\ store[file[c][1]].state = "json"
        /\ store[file[c][1]].data["metadata"]["total_turns"] = 4

\* C15: a follow-up whose conversation_history is no JSON or is JSON that is
\* no history object, and any request with neither transcription nor audio,
\* is rejected with an error before a model call and without a save.
C15_MalformedRejectedEarly ==
    \A c \in Clients :
        /\ req[c].kind # "none"
        /\ \/ req[c].kind = "followup" /\ req[c].history.kind # "object"
           \/ ~Truthy(req[c].transcription) /\ req[c].audio = "none"
        => /\ pc[c] = "idle"
           /\ resp[c].status >= 400
           /\ modelCalls[c] = 0
           /\ saveCalls[c] = 0

\* C16: a request that brings both a transcription text and audio never
\* reads or uploads the audio, and its model call is made with the text
\* only.
C16_TextHasPriority ==
    \A c \in Clients :
        /\ req[c].kind # "none"
        /\ Truthy(req[c].transcription)
        /\ req[c].audio # "none"
        => /\ io[c].audio = "untouched"
           /\ io[c].call \in {"none", "text"}
           /\ modelCalls[c] = 1 => io[c].call = "text"

\* C17: the flags a follow-up returns are the model's flags after the
\* defaults, at every turn count: completion is never forced at turn 3 or
\* later, and a follow-up answered with requiresFollowUp = true leaves a
\* history that is not complete.
C17_FlagsAreTheModels ==
    \A c \in Clients :
        Done(c) /\ req[c].kind = "followup" /\ resp[c].status = 200 =>
            LET p == Normalize(outcome[c].parsed)
            IN  /\ resp[c].body["requiresFollowUp"] = p["requiresFollowUp"]
                /\ resp[c].body["conversationComplete"]
                      = p["conversationComplete"]
                /\ resp[c].body["history"]["conversationComplete"]
                      = p["conversationComplete"]

\* The fourth follow-up of a conversation, answered by the model with
\* requiresFollowUp = true, came back open.
C17_Witness ==
    \E c \in Clients :
        /\ Done(c)
        /\ req[c].kind = "followup"
        /\ resp[c].status = 200
        /\ Len(PriorTurns(c)) = 3
        /\ Get(outcome[c].parsed, "requiresFollowUp", None) = JTrue
        /\ resp[c].body["requiresFollowUp"] = JTrue
        /\ resp[c].body["conversationComplete"] = JFalse
        /\ Len(resp[c].body["history"]["turns"]) = 4

\* The dict d without the key k.
Without(d, k) == [j \in DOMAIN d \ {k} |-> d[j]]

\* What submit_feedback and submit_followup return for the request r when
\* the model gives o, computed from r and o alone (and the clock t).
OwnFeedbackResult(r, o) ==
    LET pd == FeedbackParsed(Normalize(o.parsed),
                             FeedbackUserTranscription(r), r.score)
    IN  FeedbackResult(pd, InitialHistory(pd, r.score, r.category), <<>>)
OwnFollowupResult(r, o, t) ==
    LET ut == FollowupUserTranscription(r)
        pd == FollowupParsed(Normalize(o.parsed), ut, r.score)
        turns == Append(r.history.value["turns"], NewTurn(pd, ut))
    IN  FollowupResult(pd,
                       UpdatedHistory(r.history.value, turns, pd, r.score,
                                      r.category, t),
                       r.score)

\* C18: requests are independent.  However the requests of two
\* conversations interleave, what a request returns is what its own inputs
\* and its own model response give (with the name of its snapshot and the
\* time of the update): its history holds the turns it was sent and its
\* own new turn, none of another conversation.
C18_RequestsIndependent ==
    \A c \in Clients :
        Done(c) /\ resp[c].status = 200 =>
            IF req[c].kind = "feedback"
            THEN Without(resp[c].body, "saved_conversation_file")
                    = OwnFeedbackResult(req[c], outcome[c])
            ELSE \E t \in 0..MaxTime :
                    resp[c].body = OwnFollowupResult(req[c], outcome[c], t)

\* A follow-up came back while the other client holds the history of
\* another conversation, one with another sentiment.
C18_Witness ==
    \E c \in Clients, d \in Clients :
        /\ c # d
        /\ Done(c)
        /\ req[c].kind = "followup"
        /\ resp[c].status = 200
        /\ held[d] # NoHistory
        /\ held[d].value["sentiment"] # req[c].history.value["sentiment"]
        /\ resp[c].body["history"]["sentiment"]
              = req[c].history.value["sentiment"]

\* C19: the history a follow-up returns is the history it was sent with the
\* new turn appended and last_updated set: no other key is added and every
\* other key keeps its value.
C19_HistoryFrame ==
    \A c \in Clients :
        Done(c) /\ req[c].kind = "followup" /\ resp[c].status = 200 =>
            LET h0 == req[c].history.value
                h == resp[c].body["history"]
            IN  /\ DOMAIN h = DOMAIN h0 \cup {"last_updated"}
                /\ Len(h["turns"]) = Len(h0["turns"]) + 1
                /\ \A k \in DOMAIN h0 \ {"turns", "last_updated"} :
                      h[k] = h0[k]

\* C20: every snapshot in the store has a score in 0..10, as its own score
\* and as the score of its analysis.
C20_PersistedScoreInRange ==
    \A f \in Files :
        store[f].state = "json" =>
            /\ store[f].data["score"] \in 0..10
            /\ Analysis(store[f].data)["score"] \in 0..10

\* The store holds the snapshot of a follow-up with score 0, sent with a
\* history whose score is another.
C20_Witness ==
    \E c \in Clients :
        /\ Done(c)
        /\ req[c].kind = "followup"
        /\ req[c].score = 0
        /\ Get(req[c].history.value, "score", 0) # 0
        /\ file[c] # <<>>
        /\ store[file[c][1]].state = "json"
        /\ store[file[c][1]].data["score"] = 0

\* ---------------------------------------------------------- analytics

\* type(v) is NoneType, for a value that may be a number or a string.
IsNone(v) == ToString(v) = ToString(None)

\* A datetime: the day (2025-01-01 is day 0), the second of the day and the
\* microsecond of the second; NoDatetime is None, and ValueError stands for
\* the exception in place of a value.
Datetime(day, second, microsecond) ==
    [kind |-> "datetime", day |-> day, second |-> second,
     microsecond |-> microsecond]
NoDatetime == [kind |-> "none", day |-> 0, second |-> 0, microsecond |-> 0]
ValueError ==
    [kind |-> "ValueError", day |-> 0, second |-> 0, microsecond |-> 0]

\* a < b on datetimes
Earlier(a, b) ==
    \/ a.day < b.day
    \/ a.day = b.day /\ a.second < b.second
    \/ a.day = b.day /\ a.second = b.second /\ a.microsecond < b.microsecond

\* datetime.fromisoformat, then strptime(value, "%Y-%m-%d"), on the strings
\* of the model: a date parses to the midnight that starts it.
IsoStrings ==
    ("2025-01-01" :> Datetime(0, 0, 0))
    @@ ("2025-01-01T00:00:00Z" :> Datetime(0, 0, 0))
    @@ ("2025-01-01T12:00:00Z" :> Datetime(0, 43200, 0))
    @@ ("2025-01-01T23:59:00Z" :> Datetime(0, 86340, 0))
    @@ ("2025-01-01T23:59:59.999999Z" :> Datetime(0, 86399, 999999))
    @@ ("2025-01-02" :> Datetime(1, 0, 0))
    @@ ("2025-01-02T00:00:00Z" :> Datetime(1, 0, 0))
    @@ ("2025-01-02T00:00:01Z" :> Datetime(1, 1, 0))

\* parse_iso_datetime
ParseIsoDatetime(value) ==
    IF ~Truthy(value) THEN NoDatetime
    ELSE IF value \in DOMAIN IsoStrings THEN IsoStrings[value]
    ELSE ValueError

\* filter_records_by_date: end_dt after the adjustment of a midnight.
EndOfDay(end_dt) ==
    IF end_dt.kind = "datetime" /\ end_dt.second = 0
       /\ end_dt.microsecond = 0
    THEN Datetime(end_dt.day, 86399, 999999)
    ELSE end_dt

\* filter_records_by_date: the parsed saved_at of a record.
SavedDt(record) ==
    IF Truthy(record.saved_at) THEN ParseIsoDatetime(record.saved_at)
    ELSE NoDatetime

\* filter_records_by_date: the test of the loop for one record.
Kept(record, start_dt, end_dt) ==
    /\ SavedDt(record).kind = "datetime"
    /\ ~(start_dt.kind = "datetime" /\ Earlier(SavedDt(record), start_dt))
    /\ ~(end_dt.kind = "datetime" /\ Earlier(end_dt, SavedDt(record)))

\* filter_records_by_date: the list it returns, or the ValueError that
\* parse_iso_datetime raised for a bound or for the saved_at of a record.
FilterRecordsByDate(recs, start, end) ==
    LET start_dt == IF Truthy(start) THEN ParseIsoDatetime(start)
                    ELSE NoDatetime
        end_dt == IF Truthy(end) THEN EndOfDay(ParseIsoDatetime(end))
                  ELSE NoDatetime
    IN  IF \/ start_dt = ValueError
           \/ end_dt = ValueError
           \/ \E i \in 1..Len(recs) : SavedDt(recs[i]) = ValueError
        THEN [error |-> "ValueError", records |-> <<>>]
        ELSE [error |-> None,
              records |-> SelectSeq(recs,
                             LAMBDA r : Kept(r, start_dt, end_dt))]

\* isinstance(v, (int, float)), on the scores of the model
IsNumber(v) == ToString(v) \in {ToString(n) : n \in -1..11}

\* sum(s)
RECURSIVE Sum(_)
Sum(s) == IF s = <<>> THEN 0 ELSE Head(s) + Sum(Tail(s))

\* sorted(s)
RECURSIVE Sorted(_)
Sorted(s) ==
    IF s = <<>> THEN <<>>
    ELSE LET rest == Sorted(Tail(s))
         IN  SelectSeq(rest, LAMBDA x : x <= Head(s)) \o <<Head(s)>>
             \o SelectSeq(rest, LAMBDA x : x > Head(s))

\* round(num / den, 2), in hundredths: the nearest hundredth, the even one
\* of two that are equally near.  num / den is such a tie only when den has
\* a factor 8, which takes a list of at least 8 elements.
Round2(num, den) ==
    LET q == (100 * num) \div den
        r == (100 * num) % den
    IN  IF 2 * r > den \/ (2 * r = den /\ q % 2 = 1) THEN q + 1 ELSE q

\* compute_analytics: the percentage of the flags that are true, over the
\* records where the flag is not None (PctOfAll: over all records).
PctOfAll(recs, flag) ==
    LET trues == SelectSeq(recs, LAMBDA r : Truthy(r[flag]))
    IN  IF recs # <<>> THEN Round2(100 * Len(trues), Len(recs)) ELSE 0
Pct(recs, flag) ==
    LET flags == SelectSeq(recs, LAMBDA r : r[flag] # None)
        trues == SelectSeq(flags, LAMBDA r : Truthy(r[flag]))
    IN  IF flags # <<>> THEN Round2(100 * Len(trues), Len(flags)) ELSE 0

\* compute_analytics: median_score of a non-empty list, in hundredths
\* (MedianUpper: the upper middle element, whatever the count).
MedianUpper(numeric_scores) ==
    Round2(Sorted(numeric_scores)[Len(numeric_scores) \div 2 + 1], 1)
Median(numeric_scores) ==
    LET sorted_scores == Sorted(numeric_scores)
        mid == Len(sorted_scores) \div 2
    IN  IF Len(sorted_scores) % 2 = 0
        THEN Round2(sorted_scores[mid] + sorted_scores[mid + 1], 2)
        ELSE Round2(sorted_scores[mid + 1], 1)

\* Counter(s): the elements of s in the order of their first occurrence,
\* and how often each occurs.
RECURSIVE Keys(_)
Keys(s) ==
    IF s = <<>> THEN <<>>
    ELSE LET front == Keys(SubSeq(s, 1, Len(s) - 1))
         IN  IF \E i \in 1..Len(front) : front[i] = s[Len(s)] THEN front
             ELSE Append(front, s[Len(s)])
Count(s, x) == Cardinality({i \in 1..Len(s) : s[i] = x})

\* Counter.most_common: by count, the first seen first among equals.
RECURSIVE MostCommon(_, _)
MostCommon(keys, s) ==
    IF keys = <<>> THEN <<>>
    ELSE LET i == CHOOSE i \in 1..Len(keys) :
                     /\ \A j \in 1..Len(keys) :
                           Count(s, keys[j]) <= Count(s, keys[i])
                     /\ \A j \in 1..(i - 1) :
                           Count(s, keys[j]) < Count(s, keys[i])
         IN  <<[text |-> keys[i], count |-> Count(s, keys[i])]>>
             \o MostCommon(SelectSeq(keys, LAMBDA k : k # keys[i]), s)

\* compute_analytics: the stripped feedback points of all records.
RECURSIVE FeedbackPoints(_)
FeedbackPoints(recs) ==
    IF recs = <<>> THEN <<>>
    ELSE LET points == SelectSeq(Head(recs).initial_feedback_points,
                                 LAMBDA p : Truthy(p))
         IN  [i \in 1..Len(points) |-> Strip(points[i])]
             \o FeedbackPoints(Tail(recs))

\* compute_analytics; the decimals are in hundredths.
ComputeAnalytics(recs) ==
    IF recs = <<>> THEN EmptyDict
    ELSE
    LET numeric == SelectSeq(recs, LAMBDA r : IsNumber(r.score))
        numeric_scores == [i \in 1..Len(numeric) |-> numeric[i].score]
        sentiments ==
            [i \in 1..Len(recs) |-> Or(recs[i].sentiment, "Unknown")]
        turns_list == [i \in 1..Len(recs) |-> recs[i].total_turns]
        points == FeedbackPoints(recs)
    IN  [total_conversations |-> Len(recs),
         avg_score |-> IF numeric_scores # <<>>
                       THEN Round2(Sum(numeric_scores), Len(numeric_scores))
                       ELSE None,
         median_score |-> IF numeric_scores # <<>>
                          THEN Median(numeric_scores) ELSE None,
         sentiment_breakdown |->
             [s \in {sentiments[i] : i \in 1..Len(sentiments)} |->
                 Count(sentiments, s)],
         followup_required_pct |-> Pct(recs, "requires_followup"),
         completed_pct |-> Pct(recs, "conversation_complete"),
         avg_turns |-> Round2(Sum(turns_list), Len(turns_list)),
         max_turns |-> CHOOSE m \in {turns_list[i] : i \in 1..Len(recs)} :
                           \A i \in 1..Len(recs) : turns_list[i] <= m,
         top_feedback |->
             LET all == MostCommon(Keys(points), points)
             IN  SubSeq(all, 1, IF Len(all) < 5 THEN Len(all) ELSE 5)]

\* An exception that no handler catches: the framework answers 500.
InternalServerError == Response(500, "Internal Server Error", EmptyDict)

\* analytics_summary over the directory dir
AnalyticsResponse(dir, start_date, end_date) ==
    LET recs == Load(dir).records
        filtered_records ==
            IF Truthy(start_date) \/ Truthy(end_date)
            THEN FilterRecordsByDate(recs, start_date, end_date)
            ELSE [error |-> None, records |-> recs]
        computed == ComputeAnalytics(filtered_records.records)
    IN  IF Load(dir).error # None THEN InternalServerError
        ELSE IF recs = <<>>
        THEN HTTPException(404, "No saved conversations found")
        ELSE IF filtered_records.error # None THEN InternalServerError
        ELSE IF filtered_records.records = <<>>
        THEN HTTPException(404,
                 "No conversations found for the selected timeframe")
        ELSE Response(200, "",
                 [summary |-> Without(computed, "top_feedback"),
                  top_feedback |-> computed.top_feedback,
                  conversations |-> filtered_records.records,
                  filters |-> [start_date |-> start_date,
                               end_date |-> end_date,
                               total_available |-> Len(recs)]])

\* GET /analytics/summary
AnalyticsSummary(start_date, end_date) ==
    /\ query' = [start_date |-> start_date, end_date |-> end_date]
    /\ loaded' = Load(store)
    /\ answer' = AnalyticsResponse(store, start_date, end_date)
    /\ UNCHANGED <<now, store, started, held, pc, req, outcome, parsed,
                   history, payload, file, before, resp, io, modelCalls,
                   saveCalls, savesTo, initialSnapshot, records, summary,
                   text, extracted, logVars>>

\* SpecAnalytics: the conversations directory holds, under each name, no
\* file, a file that is no JSON, a JSON document that is no object, or a
\* snapshot with or without a saved_at, which may be no date; the query
\* names no bound, a day, an instant or something that is no date.
SavedAts ==
    {"2025-01-01T00:00:00Z", "2025-01-01T12:00:00Z", "2025-01-01T23:59:00Z",
     "2025-01-02T00:00:01Z", "yesterday"}
SavedOn(s) ==
    Json([saved_at |-> s, score |-> 10, sentiment |-> "Negative",
          initial_feedback_points |-> <<"slow">>, turns |-> <<>>])
Unstamped ==
    Json([score |-> 10, sentiment |-> "Negative",
          initial_feedback_points |-> <<"slow">>, turns |-> <<>>])
Directories ==
    [Files -> {Absent, Partial, NotObject, Unstamped}
              \cup {SavedOn(s) : s \in SavedAts}]
StartDates == {None, "2025-01-01", "2025-01-01T12:00:00Z", "2025-01-02"}
EndDates ==
    {None, "2025-01-01", "2025-01-01T00:00:00Z", "2025-01-01T12:00:00Z",
     "tomorrow"}

InitAnalytics ==
    /\ NoRequests
    /\ store \in Directories
    /\ NoAnalytics
    /\ NoCalls

NextAnalytics ==
    \E start_date \in StartDates, end_date \in EndDates :
        AnalyticsSummary(start_date, end_date)

SpecAnalytics == InitAnalytics /\ [][NextAnalytics]_vars

\* --------------------------------------------- properties of analytics

\* C21: load_conversation_records tolerates bad files: whatever files of
\* the directory are no JSON, or are JSON that is no object, the load does
\* not fail, and it returns exactly one record for every other file, the
\* summary of that file.
C21_BadBlobsSkipped ==
    loaded.ran =>
        /\ loaded.error = None
        /\ \A f \in Files :
              store[f].state = "json" =>
                 \E i \in 1..Len(loaded.records) :
                    loaded.records[i] = Record(f, store[f].data)
        /\ \A i \in 1..Len(loaded.records) :
              store[loaded.records[i].filename].state = "json"

\* The strings of IsoStrings that name a day and no time.
DateOnly == {"2025-01-01", "2025-01-02"}

\* The last instant a valid end bound admits: the last microsecond of the
\* day for a date, the instant itself for a datetime.
UpperLimit(end) ==
    IF end \in DateOnly THEN Datetime(IsoStrings[end].day, 86399, 999999)
    ELSE IsoStrings[end]

\* saved_at is a date and lies within the valid or absent bounds.
InRange(saved_at, start, end) ==
    /\ saved_at \in DOMAIN IsoStrings
    /\ Truthy(start) => ~Earlier(IsoStrings[saved_at], IsoStrings[start])
    /\ Truthy(end) => ~Earlier(UpperLimit(end), IsoStrings[saved_at])

\* The query that was answered names a bound; its bounds are dates or
\* absent; the directory was loaded and gave a record.
Filtering ==
    /\ loaded.ran /\ loaded.error = None /\ loaded.records # <<>>
    /\ Truthy(query.start_date) \/ Truthy(query.end_date)
    /\ Truthy(query.start_date) => query.start_date \in DOMAIN IsoStrings
    /\ Truthy(query.end_date) => query.end_date \in DOMAIN IsoStrings

\* The records the answer lists.
Conversations ==
    IF answer.status = 200 THEN answer.body.conversations ELSE <<>>

\* The records of the directory whose saved_at lies within the bounds of
\* the query.
RecordsInRange ==
    SelectSeq(loaded.records,
              LAMBDA r : InRange(r.saved_at, query.start_date,
                                 query.end_date))

\* C22: a query with a start bound, or with an end bound that is a date,
\* lists a record if and only if the saved_at of the record parses and lies
\* within [start, end], an absent bound not restricting; a record whose
\* saved_at is missing or is no date is left out and the query does not
\* fail.
C22_FilterByDate ==
    /\ Filtering
    /\ Truthy(query.end_date) => query.end_date \in DateOnly
    => /\ answer.status \in {200, 404}
       /\ Conversations = RecordsInRange

\* C23: with no record whose saved_at is no date, a query with an end bound
\* lists exactly the records saved up to the end of the day for a date, and
\* up to the instant itself for a datetime.
C23_EndBound ==
    /\ Filtering
    /\ Truthy(query.end_date)
    /\ \A i \in 1..Len(loaded.records) :
          Truthy(loaded.records[i].saved_at) =>
             loaded.records[i].saved_at \in DOMAIN IsoStrings
    => Conversations = RecordsInRange

\* The files of the directory that hold a snapshot, and those of them that
\* the query asks for: all without a bound, those in range with one.
Snapshots == {f \in Files : store[f].state = "json"}
Matching ==
    {f \in Snapshots :
        \/ ~Truthy(query.start_date) /\ ~Truthy(query.end_date)
        \/ InRange(Get(store[f].data, "saved_at", None), query.start_date,
                   query.end_date)}

\* C24: a query with valid or absent bounds that no snapshot matches is
\* answered "not found", and the detail tells which emptiness it is: no
\* snapshot in the directory, or snapshots and none in the range.
C24_NotFoundTellsWhich ==
    /\ loaded.ran
    /\ Truthy(query.start_date) => query.start_date \in DOMAIN IsoStrings
    /\ Truthy(query.end_date) => query.end_date \in DOMAIN IsoStrings
    /\ Matching = {}
    => /\ Snapshots = {} =>
             answer = HTTPException(404, "No saved conversations found")
       /\ Snapshots # {} =>
             answer = HTTPException(404,
                 "No conversations found for the selected timeframe")

\* ------------------------------------------------- compute_analytics

\* A call of compute_analytics
Summarize ==
    /\ ~summary.called
    /\ summary' = [called |-> TRUE, value |-> ComputeAnalytics(records)]
    /\ UNCHANGED <<now, store, started, held, pc, req, outcome, parsed,
                   history, payload, file, before, resp, io, modelCalls,
                   saveCalls, savesTo, initialSnapshot, loaded, query, answer,
                   records, text, extracted, logVars>>

\* SpecSummary: compute_analytics is called with up to MaxRecords records
\* as load_conversation_records makes them, of snapshots with a score of
\* 2, 8 or 10 or without one, and with a final_analysis that has both
\* flags, one or none.
MaxRecords == 3
SummaryScores == {2, 8, 10}
SummaryFlags ==
    {Flags(None, None), Flags(JTrue, JFalse), Flags(JFalse, JTrue),
     Flags(None, JTrue)}
SummaryData(score, scored, flags) ==
    (IF scored THEN [score |-> score] ELSE EmptyDict)
    @@ [saved_at |-> "2025-01-01T12:00:00Z", sentiment |-> "Negative",
        initial_feedback_points |-> <<"slow">>, turns |-> <<>>,
        final_analysis |-> flags]

InitSummary ==
    /\ NoRequests
    /\ store = [f \in Files |-> Absent]
    /\ NoAnalytics
    /\ \E n \in 0..MaxRecords :
          \E scores \in [1..n -> SummaryScores], scored \in [1..n -> BOOLEAN],
             flags \in [1..n -> SummaryFlags] :
             records = [i \in 1..n |->
                           Record(FileName(i),
                                  SummaryData(scores[i], scored[i],
                                              flags[i]))]
    /\ summary = NotCalled
    /\ text = <<>>
    /\ extracted = NotCalled

SpecSummary == InitSummary /\ [][Summarize]_vars

\* ------------------------------------- properties of compute_analytics

\* How many of the records have the flag true, and how many have it at all.
FlagTrue(flag) ==
    Cardinality({i \in 1..Len(records) : records[i][flag] = JTrue})
FlagPresent(flag) ==
    Cardinality({i \in 1..Len(records) : records[i][flag] \in {JTrue, JFalse}})

\* x, in hundredths, is num / den to 2 decimals.
Nearest(x, num, den) ==
    /\ 2 * (x * den - 100 * num) <= den
    /\ 2 * (100 * num - x * den) <= den

\* C25: followup_required_pct and completed_pct are, to 2 decimals, 100
\* times the number of records whose flag is true over the number of
\* records whose flag is present; a record without the flag is in neither
\* number; the percentage is 0 when no record has the flag, and always
\* between 0 and 100.
C25_PctOverPresent ==
    summary.called /\ records # <<>> =>
        \A f \in {<<"requires_followup", "followup_required_pct">>,
                  <<"conversation_complete", "completed_pct">>} :
            LET pct == summary.value[f[2]]
            IN  /\ 0 <= pct /\ pct <= 100 * 100
                /\ FlagPresent(f[1]) = 0 => pct = 0
                /\ FlagPresent(f[1]) > 0 =>
                      Nearest(pct, 100 * FlagTrue(f[1]), FlagPresent(f[1]))

\* Three records, one without the requires_followup flag, one with it true
\* and one with it false: the percentage is 50.
C25_Witness ==
    /\ summary.called
    /\ Len(records) = 3
    /\ FlagPresent("requires_followup") = 2
    /\ FlagTrue("requires_followup") = 1
    /\ summary.value.followup_required_pct = 5000

\* The records with a numeric score, and the k-th smallest of their scores.
Scored == {i \in 1..Len(records) : IsNumber(records[i].score)}
Kth(k) ==
    CHOOSE x \in {records[i].score : i \in Scored} :
        /\ Cardinality({i \in Scored : records[i].score < x}) < k
        /\ k <= Cardinality({i \in Scored : records[i].score <= x})
RECURSIVE Total(_)
Total(is) ==
    IF is = {} THEN 0
    ELSE LET i == CHOOSE i \in is : TRUE
         IN  records[i].score + Total(is \ {i})

\* C26: with a numeric score among the records, median_score is the middle
\* one of the sorted scores for an odd count and the mean of the two middle
\* ones for an even count, and avg_score is the mean of the scores to 2
\* decimals; with no numeric score both are None.
C26_MedianAndMean ==
    summary.called /\ records # <<>> =>
        LET n == Cardinality(Scored)
            avg == summary.value.avg_score
            median == summary.value.median_score
        IN  IF n = 0 THEN IsNone(avg) /\ IsNone(median)
            ELSE /\ ~IsNone(avg) /\ ~IsNone(median)
                 /\ Nearest(avg, Total(Scored), n)
                 /\ n % 2 = 1 => median = 100 * Kth((n + 1) \div 2)
                 /\ n % 2 = 0 =>
                       median = 50 * (Kth(n \div 2) + Kth(n \div 2 + 1))

\* The scores 2, 8 and 10, in some order: the mean is 6.67, the median 8.
C26_Witness ==
    /\ summary.called
    /\ Cardinality(Scored) = 3
    /\ {records[i].score : i \in Scored} = {2, 8, 10}
    /\ summary.value.avg_score = 667
    /\ summary.value.median_score = 800

\* ------------------------------------------- extract_json_from_text

\* A text is a sequence of pieces separated by white space: prose without
\* braces, quotes or backquotes; a code fence (three backquotes, written
\* [fence] here), plain or tagged json; a JSON object; an object written
\* with single quotes in place of the double quotes, which is no JSON; a
\* brace span that is no JSON either way.
Prose == "prose"
Fence == "[fence]"
FenceJson == "[fence]json"
ObjA == "{\"a\": 1}"
ObjB == "{\"b\": 2}"
Quoted == "{'a': 1}"
Bad == "{bad}"
IsFence(piece) == piece \in {Fence, FenceJson}
IsBrace(piece) == piece \in {ObjA, ObjB, Quoted, Bad}

\* json.loads(candidate): the dict, or JSONDecodeError (ok is FALSE).  A
\* candidate of several pieces is no JSON document.
JSONDecodeError == [ok |-> FALSE, value |-> EmptyDict]
JsonLoads(candidate) ==
    IF candidate = <<ObjA>> THEN [ok |-> TRUE, value |-> [a |-> 1]]
    ELSE IF candidate = <<ObjB>> THEN [ok |-> TRUE, value |-> [b |-> 2]]
    ELSE JSONDecodeError

\* candidate.replace("'", '"')
ReplaceQuotes(candidate) ==
    [i \in 1..Len(candidate) |->
        IF candidate[i] = Quoted THEN ObjA ELSE candidate[i]]

\* min(S) of a non-empty set of numbers
Least(S) == CHOOSE i \in S : \A j \in S : i <= j
Greatest(S) == CHOOSE i \in S : \A j \in S : j <= i

\* re.search for a fence, an optional json, white space, group 1 (a brace,
\* as little as can be, a brace), white space and a fence, with DOTALL: the
\* leftmost fence that is followed by a brace, with somewhere after it a
\* closing brace followed by a fence; group 1 runs from the first brace to
\* the nearest such closing brace.
FenceEnds(txt, i) ==
    {j \in (i + 1)..(Len(txt) - 1) : IsBrace(txt[j]) /\ IsFence(txt[j + 1])}
FenceStarts(txt) ==
    {i \in 1..Len(txt) :
        /\ IsFence(txt[i])
        /\ i < Len(txt) /\ IsBrace(txt[i + 1])
        /\ FenceEnds(txt, i) # {}}
FencedCandidate(txt) ==
    LET i == Least(FenceStarts(txt))
    IN  SubSeq(txt, i + 1, Least(FenceEnds(txt, i)))

\* re.search(r'\{.*\}', text, re.DOTALL): from the first brace that opens
\* to the last that closes.
Braces(txt) == {i \in 1..Len(txt) : IsBrace(txt[i])}
BraceCandidate(txt) ==
    SubSeq(txt, Least(Braces(txt)), Greatest(Braces(txt)))

\* What extract_json_from_text does: it returns a dict (ok) that is the
\* json.loads of `candidate`, found by `via`, or it raises ValueError.
Returns(via, candidate) ==
    [called |-> TRUE, ok |-> TRUE, via |-> via, candidate |-> candidate,
     value |-> JsonLoads(candidate).value, error |-> None]
RaisesValueError(message) ==
    [called |-> TRUE, ok |-> FALSE, via |-> "none", candidate |-> <<>>,
     value |-> EmptyDict, error |-> message]

\* extract_json_from_text (ExtractFirstObject: the first brace span alone,
\* whatever follows it).
ExtractFirstObject(txt) ==
    IF txt = <<>> THEN RaisesValueError("Empty model response")
    ELSE IF Braces(txt) # {}
            /\ JsonLoads(<<txt[Least(Braces(txt))]>>).ok
    THEN Returns("brace", <<txt[Least(Braces(txt))]>>)
    ELSE RaisesValueError("No valid JSON found in model output")
ExtractJsonFromText(txt) ==
    IF txt = <<>> THEN RaisesValueError("Empty model response")
    ELSE IF FenceStarts(txt) # {} /\ JsonLoads(FencedCandidate(txt)).ok
    THEN Returns("fenced", FencedCandidate(txt))
    ELSE IF Braces(txt) # {} /\ JsonLoads(BraceCandidate(txt)).ok
    THEN Returns("brace", BraceCandidate(txt))
    ELSE IF Braces(txt) # {}
            /\ JsonLoads(ReplaceQuotes(BraceCandidate(txt))).ok
    THEN Returns("repair", ReplaceQuotes(BraceCandidate(txt)))
    ELSE RaisesValueError("No valid JSON found in model output")

\* A call of extract_json_from_text
Extract ==
    /\ ~extracted.called
    /\ extracted' = ExtractJsonFromText(text)
    /\ UNCHANGED <<now, store, started, held, pc, req, outcome, parsed,
                   history, payload, file, before, resp, io, modelCalls,
                   saveCalls, savesTo, initialSnapshot, loaded, query, answer,
                   records, summary, text, logVars>>

\* SpecExtract: the model's text is up to MaxParts parts, each a piece of
\* prose, a brace span, or a fenced block around one of these.
MaxParts == 3
Contents == {<<Prose>>, <<ObjA>>, <<ObjB>>, <<Quoted>>, <<Bad>>}
Parts ==
    Contents
    \cup {<<fence>> \o content \o <<Fence>> :
             fence \in {Fence, FenceJson}, content \in Contents}
RECURSIVE Flatten(_)
Flatten(parts) ==
    IF parts = <<>> THEN <<>> ELSE Head(parts) \o Flatten(Tail(parts))

InitExtract ==
    /\ NoRequests
    /\ store = [f \in Files |-> Absent]
    /\ NoAnalytics
    /\ records = <<>>
    /\ summary = NotCalled
    /\ \E n \in 0..MaxParts :
          \E parts \in [1..n -> Parts] : text = Flatten(parts)
    /\ extracted = NotCalled

SpecExtract == InitExtract /\ [][Extract]_vars

\* ------------------------------- properties of extract_json_from_text

\* The fenced blocks of a text whose content is one JSON object: an
\* opening fence (the first, third, ... fence of the text), the object, and
\* the closing fence.
Opens(txt, i) ==
    /\ IsFence(txt[i])
    /\ Cardinality({j \in 1..(i - 1) : IsFence(txt[j])}) % 2 = 0
JsonBlocks(txt) ==
    {i \in 1..(Len(txt) - 2) :
        /\ Opens(txt, i)
        /\ JsonLoads(<<txt[i + 1]>>).ok
        /\ IsFence(txt[i + 2])}

\* C27: for a text with a fenced block, plain or tagged json, whose content
\* is a JSON object, extract_json_from_text returns the object of such a
\* block, whatever else the text holds.
C27_FencedBlockWins ==
    extracted.called /\ JsonBlocks(text) # {} =>
        /\ extracted.ok
        /\ \E i \in JsonBlocks(text) :
              extracted.value = JsonLoads(<<text[i + 1]>>).value

\* C28: for a text with a single-quoted object and no fence,
\* extract_json_from_text returns a dict, found by the repair: the
\* json.loads of the span from the first brace to the last with its single
\* quotes replaced by double quotes.
C28_RepairPath ==
    /\ extracted.called
    /\ \E i \in 1..Len(text) : text[i] = Quoted
    /\ \A i \in 1..Len(text) : ~IsFence(text[i])
    => /\ extracted.ok
       /\ extracted.via = "repair"
       /\ extracted.candidate = ReplaceQuotes(BraceCandidate(text))

\* The spans the three strategies hand to json.loads.
Candidates(txt) ==
    (IF FenceStarts(txt) # {} THEN {FencedCandidate(txt)} ELSE {})
    \cup (IF Braces(txt) # {}
          THEN {BraceCandidate(txt), ReplaceQuotes(BraceCandidate(txt))}
          ELSE {})

\* C29: extract_json_from_text raises ValueError for the empty text and
\* for every text none of whose candidates json.loads accepts; a value it
\* returns is the json.loads of a whole candidate.
C29_FailsOrStrictParse ==
    extracted.called =>
        /\ text = <<>> => ~extracted.ok /\ extracted.error # None
        /\ (\A c \in Candidates(text) : ~JsonLoads(c).ok) =>
              ~extracted.ok /\ extracted.error # None
        /\ extracted.ok =>
              \E c \in Candidates(text) :
                 /\ JsonLoads(c).ok
                 /\ extracted.value = JsonLoads(c).value

\* A text that starts with a JSON object and goes on with another brace
\* span: no candidate is JSON, and the call raised.
C29_Witness ==
    /\ extracted.called
    /\ Len(text) > 1
    /\ JsonLoads(<<text[1]>>).ok
    /\ \A c \in Candidates(text) : ~JsonLoads(c).ok
    /\ ~extracted.ok

\* ------------------------------------------- save and load together

\* C30: a snapshot that submit_feedback or submit_followup saved with the
\* flags requiresFollowUp and conversationComplete of its analysis is
\* loaded by load_conversation_records as a record whose requires_followup
\* and conversation_complete are these two flags.
C30_FlagsRoundTrip ==
    loaded.ran =>
        \A f \in Files :
            store[f].state = "json" =>
                /\ Len(RecordsOf(f)) = 1
                /\ RecordsOf(f)[1].requires_followup =
                      Analysis(store[f].data)["requiresFollowUp"]
                /\ RecordsOf(f)[1].conversation_complete =
                      Analysis(store[f].data)["conversationComplete"]


\* ---------------------------------------------------------------------
\* Turn 1 of a conversation in its later snapshots
\* (submit_feedback 543-569, submit_followup 615-619, 725-751).
\* ---------------------------------------------------------------------
\* What a history says of turn 1, under the names the snapshots use.
HistoryTurnOne(h) ==
    [sentiment |-> Get(h, "sentiment", ""),
     initial_transcription |-> Get(h, "initial_transcription", ""),
     initial_feedback_points |-> Get(h, "feedback", <<>>)]
\* The follow-up snapshots in hand: client c's submit_followup has built
\* its snapshot, and c is in a conversation that submit_feedback opened.
FollowupSnapshots ==
    {c \in Clients : /\ req[c] # NoRequest
                     /\ req[c].kind = "followup"
                     /\ payload[c] # EmptyDict
                     /\ initialSnapshot[c].kind = "snapshot"}
\* C31: sentiment and feedback points are fixed at turn 1.  Every client of
\* this specification sends with a follow-up the history the last response
\* gave it, unchanged; then every follow-up snapshot of the conversation
\* has the sentiment, initial_transcription and initial_feedback_points of
\* the initial snapshot, and so has every history the conversation returns,
\* whatever the later model results contain.
C31_TurnOneFixed ==
    /\ \A c \in FollowupSnapshots :
           TurnOne(payload[c]) = initialSnapshot[c].value
    /\ \A c \in Clients :
           (initialSnapshot[c].kind = "snapshot" /\ held[c].kind = "object")
               => HistoryTurnOne(held[c].value) = initialSnapshot[c].value
\* The snapshot of a second follow-up whose model result names another
\* sentiment and other feedback points than turn 1 did.
C31_Witness ==
    \E c \in FollowupSnapshots :
        /\ Get(payload[c]["latest_analysis"], "sentiment", "")
               # initialSnapshot[c].value.sentiment
        /\ Get(payload[c]["latest_analysis"], "feedback", <<>>)
               # initialSnapshot[c].value.initial_feedback_points
        /\ Len(payload[c]["turns"]) >= 2


\* ---------------------------------------------------------------------
\* The finally block of the handlers (submit_feedback 584-592,
\* submit_followup 771-779, safe_delete_temp, safe_delete_genai_file).
\* ---------------------------------------------------------------------
\* A deletion of client c's request raised.
DeletionFailed(c) == io[c].unlink = "failed" \/ io[c].delete = "failed"
\* The request of client c is one that the handler answers with a 200.
Answered(c) ==
    /\ (IF req[c].kind = "feedback" THEN FeedbackRejection(req[c])
        ELSE FollowupRejection(req[c])) = NoResponse
    /\ ModelSucceeded(c)
    /\ req[c].kind = "followup" => AppendRejection(req[c].history) = NoResponse
\* C32: on every exit path of submit_feedback and submit_followup the
\* deletion of the temporary audio file is attempted if one was created,
\* and the deletion of the uploaded audio handle is attempted if one was
\* obtained; a deletion that fails leaves the response what the exit path
\* made it.
C32_CleanupOnEveryExit ==
    \A c \in Clients :
        Done(c) =>
            /\ io[c].temp # "none" => io[c].unlink # "notcalled"
            /\ io[c].handle # "none" => io[c].delete # "notcalled"
            /\ (DeletionFailed(c) /\ io[c].handle # "none")
                   => (resp[c].status = 200 <=> Answered(c))


\* ---------------------------------------------------------------------
\* The feedback log of ehr_han.py: handle_feedback appends a line to
\* DB_FILE and get_dashboard_data reads its lines, both under file_lock.
\* The tasks run on one event loop: a task runs alone from one await to
\* the next, and each action below is such a stretch of one task.
\* ---------------------------------------------------------------------
MaxLogRequests == 3

\* json.dumps(analysis_data) + "\n": the text of the entry, with no line
\* break in it, and the line break at its end.  The disk gets it in up to
\* two parts, the second of which ends the line.
Line(e) ==
    <<[entry |-> e, part |-> "head"], [entry |-> e, part |-> "rest"]>>
\* all_feedback.reverse()
Reverse(s) == [i \in 1..Len(s) |-> s[Len(s) + 1 - i]]

LockFreeAlways(holder) == TRUE
\* asyncio.Lock: the lock is not held.
LockFree(holder) == holder = None

\* async with file_lock: the task takes the lock when it is free and runs
\* on to the await of aiofiles.open, else it waits.  `seen` notes how many
\* appends were complete when the task got the lock.
Enter(t, locals) ==
    IF LockFree(fileLock)
    THEN /\ fileLock' = t
         /\ task' = [task EXCEPT ![t] =
                        [locals EXCEPT !.pc = "open", !.seen = Len(appended)]]
    ELSE /\ task' = [task EXCEPT ![t] =
                        [locals EXCEPT !.pc = "wait", !.waited = TRUE]]
         /\ UNCHANGED fileLock

\* POST /submit_feedback of ehr_han.py, to the await of the model call.
HandleFeedback(t) ==
    /\ task[t].pc = "idle"
    /\ logStarted < MaxLogRequests
    /\ logStarted' = logStarted + 1
    /\ task' = [task EXCEPT ![t] =
                   [NoTask EXCEPT !.pc = "calling", !.kind = "feedback",
                                  !.entry = logStarted + 1]]
    /\ UNCHANGED <<fileLock, dbFile, appended>>
    /\ UNCHANGED serverVars

\* handle_feedback from the return of the model call: the upload, the call
\* or json.loads raised and the handler answers 500, or analysis_data is
\* bound and the handler comes to async with file_lock.
Analysed(t, ok) ==
    /\ task[t].pc = "calling"
    /\ IF ok
       THEN Enter(t, task[t])
       ELSE /\ task' = [task EXCEPT ![t] =
                           [@ EXCEPT !.pc = "idle",
                                     !.resp = HTTPException(500, "error")]]
            /\ UNCHANGED fileLock
    /\ UNCHANGED <<dbFile, appended, logStarted>>
    /\ UNCHANGED serverVars

\* A task that waits for file_lock gets it.
Acquire(t) ==
    /\ task[t].pc = "wait"
    /\ LockFree(fileLock)
    /\ fileLock' = t
    /\ task' = [task EXCEPT ![t] =
                   [@ EXCEPT !.pc = "open", !.seen = Len(appended)]]
    /\ UNCHANGED <<dbFile, appended, logStarted>>
    /\ UNCHANGED serverVars

\* handle_feedback: aiofiles.open(DB_FILE, 'a') makes the file if there is
\* none; when it raises, the lock is released and the handler answers 500.
OpenAppend(t, ok) ==
    /\ task[t].pc = "open"
    /\ task[t].kind = "feedback"
    /\ IF ok
       THEN /\ dbFile' = [dbFile EXCEPT !.exists = TRUE]
            /\ task' = [task EXCEPT ![t] = [@ EXCEPT !.pc = "write"]]
            /\ UNCHANGED fileLock
       ELSE /\ fileLock' = None
            /\ task' = [task EXCEPT ![t] =
                           [@ EXCEPT !.pc = "idle",
                                     !.resp = HTTPException(500, "error")]]
            /\ UNCHANGED dbFile
    /\ UNCHANGED <<appended, logStarted>>
    /\ UNCHANGED serverVars

\* handle_feedback: await f.write(line), a write that completes.  Of the
\* line, the end of the file has got nothing yet, a part, or all
\* (`flushed` parts) when the task is resumed.
Write(t, flushed) ==
    /\ task[t].pc = "write"
    /\ dbFile' = [dbFile EXCEPT
                     !.text = @ \o SubSeq(Line(task[t].entry), 1, flushed)]
    /\ task' = [task EXCEPT ![t] =
                   [@ EXCEPT !.pc = "close", !.flushed = flushed]]
    /\ UNCHANGED <<fileLock, appended, logStarted>>
    /\ UNCHANGED serverVars

\* handle_feedback: the file is closed, which writes what is left of the
\* line, and file_lock is released.
CloseAppend(t) ==
    /\ task[t].pc = "close"
    /\ dbFile' = [dbFile EXCEPT
                     !.text = @ \o SubSeq(Line(task[t].entry),
                                          task[t].flushed + 1, 2)]
    /\ appended' = Append(appended, task[t].entry)
    /\ fileLock' = None
    /\ task' = [task EXCEPT ![t] = [@ EXCEPT !.pc = "cleanup"]]
    /\ UNCHANGED logStarted
    /\ UNCHANGED serverVars

\* handle_feedback: after the deletion of the uploaded file, whose failure
\* is printed, the handler returns analysis_data.
ReturnAnalysis(t) ==
    /\ task[t].pc = "cleanup"
    /\ task' = [task EXCEPT ![t] =
                   [@ EXCEPT !.pc = "idle",
                             !.resp = Response(200, "", <<task[t].entry>>)]]
    /\ UNCHANGED <<fileLock, dbFile, appended, logStarted>>
    /\ UNCHANGED serverVars

\* GET /dashboard: without DB_FILE the handler returns the empty list, else
\* it comes to async with file_lock.
GetDashboardData(t) ==
    /\ task[t].pc = "idle"
    /\ logStarted < MaxLogRequests
    /\ logStarted' = logStarted + 1
    /\ IF ~dbFile.exists
       THEN /\ task' = [task EXCEPT ![t] =
                           [NoTask EXCEPT !.kind = "dashboard",
                                          !.seen = Len(appended),
                                          !.resp = Response(200, "", <<>>)]]
            /\ UNCHANGED fileLock
       ELSE Enter(t, [NoTask EXCEPT !.kind = "dashboard"])
    /\ UNCHANGED <<dbFile, appended>>
    /\ UNCHANGED serverVars

\* get_dashboard_data: aiofiles.open(DB_FILE, 'r')
OpenRead(t) ==
    /\ task[t].pc = "open"
    /\ task[t].kind = "dashboard"
    /\ task' = [task EXCEPT ![t] = [@ EXCEPT !.pc = "read", !.pos = 0]]
    /\ UNCHANGED <<fileLock, dbFile, appended, logStarted>>
    /\ UNCHANGED serverVars

\* The next line of the file from position pos: up to the first line break,
\* or what is left of the file.
NextLine(content, pos) ==
    LET ends == {i \in (pos + 1)..Len(content) : content[i].part = "rest"}
    IN  SubSeq(content, pos + 1,
               IF ends = {} THEN Len(content) ELSE Least(ends))

\* get_dashboard_data: one round of `async for line in f`.  At the end of
\* the file the lock is released and the reversed list returned; a line
\* that json.loads refuses ends the request with a 500.
ReadLine(t) ==
    /\ task[t].pc = "read"
    /\ LET line == NextLine(dbFile.text, task[t].pos)
       IN  IF task[t].pos >= Len(dbFile.text)
           THEN /\ fileLock' = None
                /\ task' = [task EXCEPT ![t] =
                               [@ EXCEPT
                                   !.pc = "idle",
                                   !.resp = Response(200, "",
                                               Reverse(task[t].all_feedback))]]
           ELSE IF line = Line(line[1].entry)
           THEN /\ task' = [task EXCEPT ![t] =
                               [@ EXCEPT
                                   !.pos = @ + Len(line),
                                   !.all_feedback = Append(@, line[1].entry)]]
                /\ UNCHANGED fileLock
           ELSE /\ fileLock' = None
                /\ task' = [task EXCEPT ![t] =
                               [@ EXCEPT
                                   !.pc = "idle",
                                   !.resp = HTTPException(500,
                                                          "JSONDecodeError")]]
    /\ UNCHANGED <<dbFile, appended, logStarted>>
    /\ UNCHANGED serverVars

\* SpecLog: up to MaxLogRequests requests of ehr_han.py, appends and reads
\* in any number and order, run by three concurrent tasks.
NextLog ==
    \/ \E t \in LogTasks : HandleFeedback(t)
    \/ \E t \in LogTasks, ok \in BOOLEAN : Analysed(t, ok)
    \/ \E t \in LogTasks : Acquire(t)
    \/ \E t \in LogTasks, ok \in BOOLEAN : OpenAppend(t, ok)
    \/ \E t \in LogTasks, flushed \in 0..2 : Write(t, flushed)
    \/ \E t \in LogTasks : CloseAppend(t)
    \/ \E t \in LogTasks : ReturnAnalysis(t)
    \/ \E t \in LogTasks : GetDashboardData(t)
    \/ \E t \in LogTasks : OpenRead(t)
    \/ \E t \in LogTasks : ReadLine(t)

SpecLog == Init /\ [][NextLog]_vars

\* Task t is between taking file_lock and releasing it.
Inside(t) == task[t].pc \in {"open", "write", "close", "read"}
\* The text of a file that holds one complete line for each of the entries,
\* in their order.
TextOf(entries) ==
    [i \in 1..(2 * Len(entries)) |->
        Line(entries[(i + 1) \div 2])[((i - 1) % 2) + 1]]
\* The tasks whose append is under way, and those that read.
Appending == {t \in LogTasks : task[t].pc \in {"write", "close"}}
Dashboards == {t \in LogTasks : task[t].kind = "dashboard"}
====
